---- MODULE Spec2Model ----
(***************************************************************************)
(* A model of next-middleware-toolkit: the MiddlewareBuilder (route table, *)
(* priority calculator, path matcher, rule chain executor and plugin       *)
(* pipeline) as a state machine.                                           *)
(*                                                                         *)
(* Strings are sequences of one-character strings, so that split,          *)
(* startsWith, endsWith, slice and replace are computed as the JavaScript  *)
(* does.                                                                   *)
(***************************************************************************)
EXTENDS Integers, Sequences, FiniteSets, TLC

(***************************************************************************)
(* Bounds of the model.                                                    *)
(***************************************************************************)
\* Longest rule chain a route is registered with.
MaxRules == 3
\* Most routes registered before build().
MaxRoutes == 2
\* Most entries of authPaths (constructor option plus registerAuthPaths()).
MaxAuthPaths == 1
\* Most segments of a pattern handed to the priority calculator.
MaxDepth == 101

(***************************************************************************)
(* JavaScript string primitives.                                           *)
(***************************************************************************)
\* s.startsWith(p)
StartsWith(s, p) ==
    /\ Len(p) <= Len(s)
    /\ SubSeq(s, 1, Len(p)) = p

\* s.endsWith(p)
EndsWith(s, p) ==
    /\ Len(p) <= Len(s)
    /\ SubSeq(s, Len(s) - Len(p) + 1, Len(s)) = p

\* s.slice(n), n >= 0
SliceFrom(s, n) == SubSeq(s, n + 1, Len(s))

\* s.slice(0, -n), n > 0
DropLast(s, n) == SubSeq(s, 1, Len(s) - n)

\* s.slice(1, -1)
Slice1m1(s) == SubSeq(s, 2, Len(s) - 1)

\* s.includes(c) for a one-character c
Includes(s, c) == \E i \in 1..Len(s) : s[i] = c

\* s.replace(/\/\*$/, '')
StripWildcard(s) == IF EndsWith(s, <<"/", "*">>) THEN DropLast(s, 2) ELSE s

\* s.split('/'): the parts between one slash and the next, empty ones
\* included; a string without a slash is its own single part.
Split(s) ==
    LET slashes == SelectSeq([k \in 1..Len(s) |-> k], LAMBDA k : s[k] = "/")
        n == Len(slashes)
    IN  [i \in 1..(n + 1) |->
            SubSeq(s,
                   IF i = 1 THEN 1 ELSE slashes[i - 1] + 1,
                   IF i = n + 1 THEN Len(s) ELSE slashes[i] - 1)]

\* parts.filter(Boolean): the non-empty strings of parts, in order
FilterBoolean(parts) == SelectSeq(parts, LAMBDA part : part # <<>>)

\* The value of an optional string that was not given.
Undefined == <<"undefined">>

\* JavaScript truthiness of an optional string.
Truthy(s) == s # Undefined /\ s # <<>>

(***************************************************************************)
(* utils/priority: calculatePriority, matchRoute, extractParams.           *)
(***************************************************************************)
ExactStep == 10
PrefixBase == 1000
PrefixCeiling == 100

\* Variant: shallower prefixes get the lower value.
calculatePriorityShallowFirst(path, isExact) ==
    IF isExact
    THEN Len(Split(path)) * ExactStep
    ELSE PrefixBase + Len(FilterBoolean(Split(StripWildcard(path))))

\* Variant without the base of line 45.
calculatePriorityNoBase(path, isExact) ==
    IF isExact
    THEN Len(Split(path)) * ExactStep
    ELSE PrefixCeiling - Len(FilterBoolean(Split(StripWildcard(path))))

\* Variant: the exact branch counts the non-empty segments only.
calculatePrioritySegments(path, isExact) ==
    IF isExact
    THEN Len(FilterBoolean(Split(path))) * ExactStep
    ELSE PrefixBase + (PrefixCeiling - Len(FilterBoolean(Split(StripWildcard(path)))))

\* Lines 40-46.
calculatePriority(path, isExact) ==
    IF isExact
    THEN Len(Split(path)) * ExactStep
    ELSE PrefixBase + (PrefixCeiling - Len(FilterBoolean(Split(StripWildcard(path)))))

matchRoute(path, pattern, isExact, prefix) ==
    IF isExact
    THEN path = pattern
    ELSE LET routePrefix == IF Truthy(prefix) THEN prefix ELSE StripWildcard(pattern)
         IN  \/ path = routePrefix
             \/ StartsWith(path, routePrefix \o <<"/">>)

\* A JavaScript object with string keys: a function from keys to values.
EmptyObject == [k \in {} |-> <<>>]

\* { ...a, ...b }
Spread(a, b) ==
    [k \in (DOMAIN a) \cup (DOMAIN b) |-> IF k \in DOMAIN b THEN b[k] ELSE a[k]]

\* obj[key] = value
SetKey(obj, key, value) ==
    [k \in (DOMAIN obj) \cup {key} |-> IF k = key THEN value ELSE obj[k]]

\* The '*' parameter of a prefix match (lines 89-96).
WildcardParams(path, isExact, prefix) ==
    IF ~isExact /\ Truthy(prefix)
    THEN LET remaining == SliceFrom(path, Len(prefix))
         IN  IF StartsWith(remaining, <<"/">>)
             THEN SetKey(EmptyObject, <<"*">>, SliceFrom(remaining, 1))
             ELSE IF remaining = <<>>
                  THEN SetKey(EmptyObject, <<"*">>, <<>>)
                  ELSE EmptyObject
    ELSE EmptyObject

\* The forEach over the pattern's parts (lines 103-108): parts 1..n handled.
RECURSIVE BracketParams(_, _, _, _)
BracketParams(params, patternParts, pathParts, n) ==
    IF n = 0
    THEN params
    ELSE LET before == BracketParams(params, patternParts, pathParts, n - 1)
             part == patternParts[n]
         IN  IF StartsWith(part, <<"[">>) /\ EndsWith(part, <<"]">>)
             THEN SetKey(before, Slice1m1(part),
                         IF n <= Len(pathParts) THEN pathParts[n] ELSE <<>>)
             ELSE before

extractParams(path, pattern, isExact, prefix) ==
    LET params == WildcardParams(path, isExact, prefix)
    IN  IF Includes(pattern, "[") /\ Includes(pattern, "]")
        THEN BracketParams(params, Split(pattern), Split(path), Len(Split(pattern)))
        ELSE params

(***************************************************************************)
(* responses/response-helpers: the output vocabulary.  A response is a     *)
(* record of what the caller can observe of it; Null is the rule result    *)
(* null ("not decided").                                                   *)
(***************************************************************************)
Null == [type |-> "null", status |-> 0, location |-> <<>>, body |-> "-"]

ResponsesNext == [type |-> "next", status |-> 200, location |-> <<>>, body |-> "-"]

ResponsesRedirect(url) ==
    [type |-> "redirect", status |-> 307, location |-> url, body |-> "-"]

ResponsesJson(data, status) ==
    [type |-> "json", status |-> status, location |-> <<>>, body |-> data]

SignIn == <<"/", "s", "i", "g", "n", "-", "i", "n">>

(***************************************************************************)
(* Inputs: request paths, patterns, rules, plugins, fetchUser.             *)
(***************************************************************************)
PathA == <<"/", "a">>
PathASub == <<"/", "a", "/", "b">>
PathAb == <<"/", "a", "b">>
PathC == <<"/", "c">>
PatternAStar == <<"/", "a", "/", "*">>

\* The pathnames of the requests served.
RequestPaths == {PathASub, PathAb, PathC}

\* Rules are Rules.custom(fn) of a caller's function: it may pass (null),
\* decide with a response of its own, or throw.
RuleNames == <<"R1", "R2", "R3", "R4", "R5">>

CustomRule(n) == [kind |-> "custom", name |-> RuleNames[n]]

\* The chain R1 .. Rn.
Chain(n) == [i \in 1..n |-> CustomRule(i)]

RuleError(rule) == [from |-> "rule", name |-> rule.name]
FetchError == [from |-> "fetchUser", name |-> "-"]
NoError == [from |-> "-", name |-> "-"]

\* The user data fetchUser can resolve to; NullData is null.
NullData == "null"
UserData == {"user"}

\* The user objects behind the data values: role, and roles (a user object
\* without a roles array is read through `?.` and behaves as one with an
\* empty array).
UserObject(data) ==
    CASE data = "admin" -> [role |-> "admin", roles |-> <<>>]
      [] data = "editor" -> [role |-> "editor", roles |-> <<"editor", "admin">>]
      [] data = "member" -> [role |-> "member", roles |-> <<"member">>]
      [] OTHER -> [role |-> "user", roles |-> <<>>]

\* Responses.forbidden(message): a 403 JSON response.
ResponsesForbidden(message) == ResponsesJson(message, 403)

\* rules/built-in-rules: the rule Rules.isLoggedIn() returns, applied.
isLoggedIn(ctx) ==
    IF ctx.data # NullData THEN Null ELSE ResponsesRedirect(SignIn)

\* Variant: without user data the rule passes (null) instead of deciding.
isNotLoggedInPasses(ctx) ==
    IF ctx.data = NullData THEN Null ELSE ResponsesRedirect(<<"/">>)

\* The rule Rules.isNotLoggedIn() returns, applied.
isNotLoggedIn(ctx) ==
    IF ctx.data = NullData THEN ResponsesNext ELSE ResponsesRedirect(<<"/">>)

\* Variant: only the role property is looked at.
hasRoleSingle(role, ctx) ==
    IF ctx.data # NullData /\ UserObject(ctx.data).role = role
    THEN Null
    ELSE ResponsesForbidden(role)

\* The rule Rules.hasRole(role) returns, applied: data?.role === role ||
\* data?.roles?.includes(role).
hasRole(role, ctx) ==
    IF /\ ctx.data # NullData
       /\ \/ UserObject(ctx.data).role = role
          \/ \E k \in 1..Len(UserObject(ctx.data).roles) :
                 UserObject(ctx.data).roles[k] = role
    THEN Null
    ELSE ResponsesForbidden(role)

RulesIsLoggedIn == [kind |-> "isLoggedIn", name |-> "isLoggedIn", role |-> "-"]
RulesHasRole(role) == [kind |-> "hasRole", name |-> "hasRole", role |-> role]
RulesIsNotLoggedIn ==
    [kind |-> "isNotLoggedIn", name |-> "isNotLoggedIn", role |-> "-"]

\* What one invocation of a rule can do: [threw, res].  A built-in rule
\* returns what its code computes from the context; a caller's rule can
\* pass, decide, or throw.
RuleOutcomes(rule, ctx) ==
    IF rule.kind = "isLoggedIn"
    THEN { [threw |-> FALSE, res |-> isLoggedIn(ctx)] }
    ELSE IF rule.kind = "hasRole"
    THEN { [threw |-> FALSE, res |-> hasRole(rule.role, ctx)] }
    ELSE IF rule.kind = "isNotLoggedIn"
         THEN { [threw |-> FALSE, res |-> isNotLoggedIn(ctx)] }
         ELSE { [threw |-> FALSE, res |-> Null],
                [threw |-> FALSE, res |-> ResponsesJson(rule.name, 200)],
                [threw |-> TRUE, res |-> Null] }

\* What one call of fetchUser can do: [threw, data].
FetchOutcomes ==
    { [threw |-> FALSE, data |-> d] : d \in UserData \cup {NullData} }
        \cup { [threw |-> TRUE, data |-> NullData] }

HookNames == {"beforeRequest", "beforeRule", "afterRule", "afterRequest"}

\* Plugins.  hooks: the lifecycle hooks the object defines; mayThrow: whether
\* a hook invocation can throw; onError: what its onError can do.
\* LoggingPlugin defines all five hooks, only logs, and its onError
\* resolves to undefined.
LoggingPlugin ==
    [name |-> "logging", hooks |-> HookNames \cup {"onError"},
     mayThrow |-> FALSE, onError |-> {"null"}]

\* A caller's plugin with all five hooks, any of which may throw, and whose
\* onError may also supply a response.
FlakyPlugin ==
    [name |-> "flaky", hooks |-> HookNames \cup {"onError"},
     mayThrow |-> TRUE, onError |-> {"null", "result", "throw"}]

\* A caller's plugin that only defines onError.
RecoverPlugin ==
    [name |-> "recover", hooks |-> {"onError"},
     mayThrow |-> FALSE, onError |-> {"null", "result"}]

PluginCatalogue == {LoggingPlugin, FlakyPlugin, RecoverPlugin}

\* The response a plugin's onError supplies.
OnErrorResult(plugin) == ResponsesJson(plugin.name, 500)

HookOutcomes(plugin) == IF plugin.mayThrow THEN {"ok", "throw"} ELSE {"ok"}

\* plugins/caching: CachingPlugin defines beforeRequest and afterRequest.
\* Its storage is injected (options.storage) and its entries expire, so a
\* lookup either misses or yields the entry stored for the request's key.
CachingPlugin ==
    [name |-> "caching", hooks |-> {"beforeRequest", "afterRequest"},
     mayThrow |-> FALSE, onError |-> {}]

\* The user data a cache entry holds.
CachedData == "cachedUser"

\* What storage.get(cacheKey) can resolve to.
CacheLookups == {NullData, CachedData}

\* CachingPlugin.beforeRequest with the lookup's result: a hit marks the
\* context as cached and supplies the entry as context.data.
CachingBeforeRequest(cached, ctx) ==
    IF cached # NullData
    THEN [ctx EXCEPT !.metadata = SetKey(@, "cached", "true"), !.data = cached]
    ELSE ctx

\* What one invocation of a plugin's hook can do to the context.
HookContexts(plugin, hook, ctx) ==
    IF plugin.name = "caching" /\ hook = "beforeRequest"
    THEN {CachingBeforeRequest(cached, ctx) : cached \in CacheLookups}
    ELSE {ctx}

DefaultMetadataOption == SetKey(EmptyObject, "area", "default")
RouteMetadataOption == SetKey(EmptyObject, "area", "custom")

(***************************************************************************)
(* State.                                                                  *)
(***************************************************************************)
VARIABLES
    routes,          \* MiddlewareBuilder.routes, in registration order
    authPaths,       \* MiddlewareBuilder.authPaths
    plugins,         \* MiddlewareBuilder.plugins, in registration order
    defaultMetadata, \* MiddlewareBuilder.defaultMetadata
    fetchUserFn,     \* MiddlewareBuilder.fetchUserFn, as what its calls can do
    built,           \* build() has returned the handler
    pc,              \* the handler's position in the request being served
    context,         \* the request's MiddlewareContext
    matchingRoute,   \* index in routes of the resolved route, 0 for null
    ruleIdx,         \* position of the rule loop in matchingRoute.rules
    hookIdx,         \* position of the plugin loop of the current round
    result,          \* the local `result` handed to afterRule / afterRequest
    error,           \* the error caught by the handler's catch block
    response,        \* the value the handler returned
    raised,          \* an exception escaped the handler
    trace,           \* every call made for the request, in order
    log,             \* console.error lines: <<plugin name, hook>>
    parked,          \* the handler's other calls in flight, each at an await
    legacy,          \* the legacy Middleware instance and its handle() call
    closures         \* what rule and plugin closures keep between requests,
                     \* and the clock Date.now() reads

builderVars == <<routes, authPaths, plugins, defaultMetadata, fetchUserFn, built>>
requestVars ==
    <<pc, context, matchingRoute, ruleIdx, hookIdx, result, error, response,
      raised, trace, log>>
otherVars == <<parked, legacy, closures>>
vars == <<builderVars, requestVars, otherVars>>

NoContext ==
    [data |-> NullData, path |-> <<>>, params |-> EmptyObject,
     metadata |-> EmptyObject]

\* No request is being served.
IdleRequest ==
    /\ pc = "idle"
    /\ context = NoContext
    /\ matchingRoute = 0
    /\ ruleIdx = 0
    /\ hookIdx = 0
    /\ result = Null
    /\ error = NoError
    /\ response = Null
    /\ raised = FALSE
    /\ trace = <<>>
    /\ log = {}

\* No legacy Middleware has been constructed.
NoLegacy ==
    [rules |-> <<>>, authPaths |-> <<>>, onError |-> FALSE, pc |-> "none",
     pathname |-> <<>>, data |-> NullData, sortedPaths |-> <<>>, ruleIdx |-> 0,
     nextCalled |-> FALSE, redirectPath |-> Undefined, response |-> Null,
     raised |-> FALSE, trace |-> <<>>]

\* Date.now() is read in ticks 0 .. MaxClock.
MaxClock == 3

\* The values of x-forwarded-for / x-real-ip that requests carry; "unknown"
\* stands in for a request with neither header.
ClientIPs == {"10.0.0.1", "unknown"}

\* No closure has kept anything yet: the Map of a Rules.rateLimit() rule
\* (requests: per IP the timestamps it holds) and the Map of a
\* MemoryCacheStorage (storage) are empty.  calls is the history of the
\* invocations of a rateLimit rule: the IP, the time read and whether the
\* request passed.
NoClosures ==
    [now |-> 0,
     requests |-> [ip \in ClientIPs |-> <<>>],
     calls |-> <<>>,
     storage |-> EmptyObject]

\* Only the builder's handler is in use, one call at a time.
NoOthers ==
    /\ parked = <<>>
    /\ legacy = NoLegacy
    /\ closures = NoClosures

\* One invocation of the rule Rules.rateLimit(options) returns for a request
\* of client ip, with cl the closures' state: the timestamps of ip still
\* inside the window are kept; when there are options.requests of them the
\* request is answered 429 and the Map is left alone, otherwise the time
\* read is added and the request passes.
\* Variant: the limit is reached only above options.requests timestamps.
rateLimitOffByOne(options, ip, cl) ==
    LET now == cl.now
        windowStart == now - options.window
        userRequests == cl.requests[ip]
        validRequests == SelectSeq(userRequests, LAMBDA time : time > windowStart)
    IN  IF Len(validRequests) > options.requests
        THEN [threw |-> FALSE,
              res |-> ResponsesJson("Rate limit exceeded", 429),
              closures |-> [cl EXCEPT !.calls =
                     Append(@, [ip |-> ip, now |-> now, passed |-> FALSE])]]
        ELSE [threw |-> FALSE,
              res |-> Null,
              closures |-> [cl EXCEPT
                     !.requests[ip] = Append(validRequests, now),
                     !.calls =
                         Append(@, [ip |-> ip, now |-> now, passed |-> TRUE])]]

rateLimit(options, ip, cl) ==
    LET now == cl.now
        windowStart == now - options.window
        userRequests == cl.requests[ip]
        validRequests == SelectSeq(userRequests, LAMBDA time : time > windowStart)
    IN  IF Len(validRequests) >= options.requests
        THEN [threw |-> FALSE,
              res |-> ResponsesJson("Rate limit exceeded", 429),
              closures |-> [cl EXCEPT !.calls =
                     Append(@, [ip |-> ip, now |-> now, passed |-> FALSE])]]
        ELSE [threw |-> FALSE,
              res |-> Null,
              closures |-> [cl EXCEPT
                     !.requests[ip] = Append(validRequests, now),
                     !.calls =
                         Append(@, [ip |-> ip, now |-> now, passed |-> TRUE])]]

RulesRateLimit(options) ==
    [kind |-> "rateLimit", name |-> "rateLimit", role |-> "-",
     options |-> options]

\* What one invocation of a rule can return and leave in the closures: a
\* rateLimit rule reads the request's client IP and its Map, every other
\* rule keeps no state.
RuleCalls(rule, ctx, cl) ==
    IF rule.kind = "rateLimit"
    THEN {rateLimit(rule.options, ip, cl) : ip \in ClientIPs}
    ELSE {[threw |-> outcome.threw, res |-> outcome.res, closures |-> cl] :
              outcome \in RuleOutcomes(rule, ctx)}

\* The lifetime MemoryCacheStorage.set gives an entry when the ttl it is
\* passed is falsy.
DefaultTtl == 3600000

\* MemoryCacheStorage.get(key) with cl the closures' state: a missing entry
\* and one whose expiry lies before the time read are deleted and null is
\* returned, otherwise the entry's value.
storageGet(cl, key) ==
    IF key \notin DOMAIN cl.storage \/ cl.storage[key].expires < cl.now
    THEN [value |-> NullData,
          closures |-> [cl EXCEPT !.storage =
                 [k \in (DOMAIN cl.storage) \ {key} |-> cl.storage[k]]]]
    ELSE [value |-> cl.storage[key].value, closures |-> cl]

\* MemoryCacheStorage.set(key, value, ttl).
storageSet(cl, key, value, ttl) ==
    LET expires == IF ttl # 0 THEN cl.now + ttl ELSE cl.now + DefaultTtl
    IN  [cl EXCEPT !.storage =
             SetKey(@, key, [value |-> value, expires |-> expires])]

\* new CachingPlugin(options) with the storage left to its default, a
\* MemoryCacheStorage of its own.
CachingPluginWith(options) ==
    [name |-> "caching", hooks |-> {"beforeRequest", "afterRequest"},
     mayThrow |-> FALSE, onError |-> {}, options |-> options]

\* The key the default keyGenerator derives from the request's URL.
cacheKey(ctx) == ctx.path

\* CachingPlugin.afterRequest with res the result the hook is handed.
\* Variant: the data is stored whatever the result's headers are.
CachingAfterRequestAnyResult(options, ctx, res, cl) ==
    IF ~options.enabled \/ "cached" \in DOMAIN ctx.metadata
    THEN cl
    ELSE IF ctx.data # NullData
         THEN storageSet(cl, cacheKey(ctx), ctx.data, options.ttl)
         ELSE cl

CachingAfterRequest(options, ctx, res, cl) ==
    IF ~options.enabled \/ "cached" \in DOMAIN ctx.metadata
    THEN cl
    ELSE IF ctx.data # NullData /\ ~(res # Null /\ res.location # <<>>)
         THEN storageSet(cl, cacheKey(ctx), ctx.data, options.ttl)
         ELSE cl

\* What one invocation of a plugin's hook can leave in the context and in
\* the closures.  A CachingPlugin built with options works on its
\* MemoryCacheStorage; any other hook changes the context as HookContexts
\* says and keeps no state.
HookCalls(plugin, hook, ctx, res, cl) ==
    IF "options" \in DOMAIN plugin
    THEN IF hook = "beforeRequest"
         THEN IF plugin.options.enabled
              THEN LET got == storageGet(cl, cacheKey(ctx))
                   IN  {[context |-> CachingBeforeRequest(got.value, ctx),
                         closures |-> got.closures]}
              ELSE {[context |-> ctx, closures |-> cl]}
         ELSE {[context |-> ctx,
                closures |-> CachingAfterRequest(plugin.options, ctx, res, cl)]}
    ELSE {[context |-> c, closures |-> cl] : c \in HookContexts(plugin, hook, ctx)}

\* Date.now() moves on by one tick.
Tick ==
    /\ closures.now < MaxClock
    /\ closures' = [closures EXCEPT !.now = @ + 1]
    /\ UNCHANGED <<builderVars, requestVars, parked, legacy>>

\* new MiddlewareBuilder(options)
Init ==
    /\ routes = <<>>
    /\ authPaths \in {<<>>, <<PatternAStar>>}
    /\ plugins \in {<<>>, <<LoggingPlugin>>}
    /\ defaultMetadata = DefaultMetadataOption
    /\ fetchUserFn = FetchOutcomes
    /\ built = FALSE
    /\ IdleRequest
    /\ NoOthers

(***************************************************************************)
(* Registration API.                                                       *)
(***************************************************************************)
\* A plugin's name is unique in the pipeline: no plugin is added twice.
use(plugin) ==
    /\ ~built
    /\ \A i \in 1..Len(plugins) : plugins[i].name # plugin.name
    /\ plugins' = Append(plugins, plugin)
    /\ UNCHANGED <<fetchUserFn, routes, authPaths, defaultMetadata, built,
                   requestVars>>
    /\ UNCHANGED otherVars

registerAuthPaths(paths) ==
    /\ ~built
    /\ Len(authPaths) + Len(paths) <= MaxAuthPaths
    /\ authPaths' = authPaths \o paths
    /\ UNCHANGED <<fetchUserFn, routes, plugins, defaultMetadata, built, requestVars>>
    /\ UNCHANGED otherVars

exact(path, rules) ==
    /\ ~built
    /\ Len(routes) < MaxRoutes
    /\ routes' = Append(routes,
           [pattern |-> path,
            rules |-> rules,
            priority |-> calculatePriority(path, TRUE),
            isExact |-> TRUE,
            prefix |-> Undefined,
            metadata |-> Spread(defaultMetadata, EmptyObject)])
    /\ UNCHANGED <<fetchUserFn, authPaths, plugins, defaultMetadata, built,
                   requestVars>>
    /\ UNCHANGED otherVars

prefix(pathPrefix, rules) ==
    /\ ~built
    /\ Len(routes) < MaxRoutes
    /\ LET cleanPrefix == IF EndsWith(pathPrefix, <<"/">>)
                          THEN DropLast(pathPrefix, 1)
                          ELSE pathPrefix
       IN  routes' = Append(routes,
               [pattern |-> pathPrefix,
                rules |-> rules,
                priority |-> calculatePriority(pathPrefix, FALSE),
                isExact |-> FALSE,
                prefix |-> cleanPrefix,
                metadata |-> Spread(defaultMetadata, EmptyObject)])
    /\ UNCHANGED <<fetchUserFn, authPaths, plugins, defaultMetadata, built,
                   requestVars>>
    /\ UNCHANGED otherVars

\* options: [rules, isExact \in {"undefined", "true", "false"}, metadata]
route(path, options) ==
    /\ ~built
    /\ Len(routes) < MaxRoutes
    /\ LET isExact == options.isExact # "false"
           cleanPrefix == IF ~isExact /\ EndsWith(path, <<"/">>)
                          THEN DropLast(path, 1)
                          ELSE Undefined
       IN  routes' = Append(routes,
               [pattern |-> path,
                rules |-> options.rules,
                priority |-> calculatePriority(path, isExact),
                isExact |-> isExact,
                prefix |-> cleanPrefix,
                metadata |-> Spread(defaultMetadata, options.metadata)])
    /\ UNCHANGED <<fetchUserFn, authPaths, plugins, defaultMetadata, built,
                   requestVars>>
    /\ UNCHANGED otherVars

build ==
    /\ ~built
    /\ built' = TRUE
    /\ UNCHANGED <<fetchUserFn, routes, authPaths, plugins, defaultMetadata,
                   requestVars>>
    /\ UNCHANGED otherVars

(***************************************************************************)
(* findMatchingRoute: a stable sort of a copy of routes by priority, then  *)
(* the first route that matches.                                           *)
(***************************************************************************)
\* Variant: index i placed before the indices of equal priority.
InsertBeforeEqual(sorted, i, rs) ==
    LET before == {k \in 1..Len(sorted) : rs[sorted[k]].priority < rs[i].priority}
        n == Cardinality(before)
    IN  SubSeq(sorted, 1, n) \o <<i>> \o SubSeq(sorted, n + 1, Len(sorted))

\* Index i placed in `sorted` (indices of rs in ascending priority) behind
\* every index whose route has a priority <= that of rs[i].
InsertByPriority(sorted, i, rs) ==
    LET before == {k \in 1..Len(sorted) : rs[sorted[k]].priority <= rs[i].priority}
        n == Cardinality(before)
    IN  SubSeq(sorted, 1, n) \o <<i>> \o SubSeq(sorted, n + 1, Len(sorted))

\* [...routes].sort((a, b) => a.priority - b.priority), as indices of rs:
\* the first n routes sorted.
RECURSIVE SortedRoutes(_, _)
SortedRoutes(rs, n) ==
    IF n = 0 THEN <<>> ELSE InsertByPriority(SortedRoutes(rs, n - 1), n, rs)

\* Variant: this.routes.sort(...), the table itself sorted in place.
routesSortedInPlace(rs) ==
    [k \in 1..Len(rs) |-> rs[SortedRoutes(rs, Len(rs))[k]]]

\* this.routes after findMatchingRoute: the sort works on the copy
\* [...this.routes] (line 123), so the table is as it was.
routesAfterSort(rs) == rs

findMatchingRoute(path, rs) ==
    LET sortedRoutes == SortedRoutes(rs, Len(rs))
        hits == {k \in 1..Len(sortedRoutes) :
                    matchRoute(path, rs[sortedRoutes[k]].pattern,
                               rs[sortedRoutes[k]].isExact,
                               rs[sortedRoutes[k]].prefix)}
    IN  IF hits = {}
        THEN 0
        ELSE sortedRoutes[CHOOSE k \in hits : \A j \in hits : k <= j]

(***************************************************************************)
(* The handler returned by build(): one request at a time, one step per    *)
(* awaited call.                                                           *)
(***************************************************************************)
Event(ev, plugin, rule, res, threw, data, routeIdx) ==
    [ev |-> ev, plugin |-> plugin, rule |-> rule, res |-> res, threw |-> threw,
     data |-> data, route |-> routeIdx]

\* The first plugin at or after position `from` that defines `hook`
\* (executePluginHook line 145, handlePluginErrors line 166); Len + 1 if none.
NextWithHook(hook, from, ps) ==
    LET has == {i \in from..Len(ps) : hook \in ps[i].hooks}
    IN  IF has = {} THEN Len(ps) + 1 ELSE CHOOSE i \in has : \A j \in has : i <= j

\* Variant without the try/catch of lines 146-153: the throw of a hook
\* reaches the handler's catch block.
HookLoopNoCatch(hook, idx, threw, ps) ==
    IF threw
    THEN [pc |-> "onError", hookIdx |-> NextWithHook("onError", 1, ps)]
    ELSE [pc |-> hook, hookIdx |-> NextWithHook(hook, idx + 1, ps)]

\* Where the handler stands once plugin idx's hook has ended: the throw of a
\* hook is caught inside the loop (lines 146-153), which goes on.
HookLoop(hook, idx, threw, ps) ==
    [pc |-> hook, hookIdx |-> NextWithHook(hook, idx + 1, ps)]

\* The rule the handler is at.
CurrentRule == routes[matchingRoute].rules[ruleIdx]

\* The arguments a hook round is called with besides the context: the rule
\* (lines 218, 222) and the result (lines 203, 222, 225, 231).
HookRule == IF pc \in {"beforeRule", "afterRule"} THEN CurrentRule.name ELSE "-"

\* Variant: afterRequest is called with the context alone.
HookResultAfterRuleOnly == IF pc = "afterRule" THEN result ELSE Null

HookResult == IF pc \in {"afterRule", "afterRequest"} THEN result ELSE Null

\* The handler is called with a request for `path` (lines 185-197).
Handle(path) ==
    /\ built
    /\ pc \in {"idle", "done"}
    /\ context' = [data |-> NullData, path |-> path, params |-> EmptyObject,
                   metadata |-> Spread(defaultMetadata, EmptyObject)]
    /\ pc' = "beforeRequest"
    /\ hookIdx' = NextWithHook("beforeRequest", 1, plugins)
    /\ matchingRoute' = 0
    /\ ruleIdx' = 0
    /\ result' = Null
    /\ error' = NoError
    /\ response' = Null
    /\ raised' = FALSE
    /\ trace' = <<>>
    /\ log' = {}
    /\ UNCHANGED builderVars
    /\ UNCHANGED otherVars

\* One turn of executePluginHook's loop (lines 143-155): the hook is handed
\* the context itself and may change it.
executePluginHook ==
    /\ pc \in HookNames
    /\ hookIdx <= Len(plugins)
    /\ \E outcome \in HookOutcomes(plugins[hookIdx]),
          call \in HookCalls(plugins[hookIdx], pc, context, result, closures) :
           LET threw == outcome = "throw"
               next == HookLoop(pc, hookIdx, threw, plugins)
           IN  /\ context' = call.context
               /\ closures' = call.closures
               /\ trace' = Append(trace,
                       Event(pc, plugins[hookIdx].name, HookRule, HookResult,
                             FALSE, context.data, matchingRoute))
               /\ log' = IF threw
                         THEN log \cup {<<plugins[hookIdx].name, pc>>}
                         ELSE log
               /\ pc' = next.pc
               /\ hookIdx' = next.hookIdx
               /\ error' = IF next.pc = "onError"
                           THEN [from |-> "hook", name |-> plugins[hookIdx].name]
                           ELSE error
    /\ UNCHANGED <<builderVars, matchingRoute, ruleIdx, result, response, raised>>
    /\ UNCHANGED <<parked, legacy>>

\* Variant: a request that matches no route is sent to '/sign-in'.
resolvedDeny(m) ==
    IF m = 0
    THEN [pc |-> "afterRequest", result |-> ResponsesRedirect(SignIn)]
    ELSE [pc |-> "fetchUser", result |-> Null]

\* Lines 201-205, 215: with no matching route the result is a pass-through
\* handed to the afterRequest round; with one, fetchUser is called.
resolved(m) ==
    IF m = 0
    THEN [pc |-> "afterRequest", result |-> ResponsesNext]
    ELSE [pc |-> "fetchUser", result |-> Null]

\* Lines 200-215: route resolution, then either the no-match return or the
\* params and metadata of the matched route and the call of fetchUser.
resolveRoute ==
    /\ pc = "beforeRequest"
    /\ hookIdx > Len(plugins)
    /\ LET m == findMatchingRoute(context.path, routes)
       IN  /\ matchingRoute' = m
           /\ trace' = Append(trace,
                   Event("findMatchingRoute", "-", "-", Null, FALSE,
                         context.data, m))
           /\ pc' = resolved(m).pc
           /\ result' = resolved(m).result
           /\ hookIdx' = NextWithHook(resolved(m).pc, 1, plugins)
           /\ context' =
                  IF m = 0
                  THEN context
                  ELSE [context EXCEPT
                           !.params = extractParams(context.path,
                               routes[m].pattern, routes[m].isExact,
                               routes[m].prefix),
                           !.metadata = Spread(context.metadata,
                               routes[m].metadata)]
    /\ routes' = routesAfterSort(routes)
    /\ UNCHANGED <<fetchUserFn, authPaths, plugins, defaultMetadata, built,
                   ruleIdx, error, response, raised, log>>
    /\ UNCHANGED otherVars

\* The first rule round, or the pass-through of an empty chain (lines 217,
\* 230-231).
EnterRules(rules) ==
    IF Len(rules) = 0
    THEN [pc |-> "afterRequest", result |-> ResponsesNext]
    ELSE [pc |-> "beforeRule", result |-> Null]

\* Variant: null user data is a failure as well, as in the legacy
\* matcher's handle().
fetchUserStrict(outcome, rules) ==
    IF outcome.threw \/ outcome.data = NullData
    THEN [pc |-> "onError", result |-> Null]
    ELSE EnterRules(rules)

\* What the handler does with what fetchUser resolved to (line 215): the
\* value, null included, becomes context.data and the rules run; a throw
\* goes to the catch block.
fetchUserDone(outcome, rules) ==
    IF outcome.threw
    THEN [pc |-> "onError", result |-> Null]
    ELSE EnterRules(rules)

\* Line 215: fetchUser settles.
fetchUser ==
    /\ pc = "fetchUser"
    /\ \E outcome \in fetchUserFn :
           LET next == fetchUserDone(outcome, routes[matchingRoute].rules)
           IN  /\ trace' = Append(trace,
                       Event("fetchUser", "-", "-", Null, outcome.threw,
                             outcome.data, matchingRoute))
               /\ pc' = next.pc
               /\ result' = next.result
               /\ hookIdx' = NextWithHook(next.pc, 1, plugins)
               /\ error' = IF next.pc = "onError" THEN FetchError ELSE error
               /\ context' = IF outcome.threw
                             THEN context
                             ELSE [context EXCEPT !.data = outcome.data]
               /\ ruleIdx' = IF next.pc = "beforeRule" THEN 1 ELSE ruleIdx
    /\ UNCHANGED <<builderVars, matchingRoute, response, raised, log>>
    /\ UNCHANGED otherVars

\* Variant: a rule's throw is caught per rule and counts as null.
ruleDoneIsolated(outcome) ==
    [pc |-> "afterRule", result |-> outcome.res]

\* Variant: a rule's non-null result is returned before its afterRule round.
ruleDoneEarlyReturn(outcome) ==
    IF outcome.threw
    THEN [pc |-> "onError", result |-> result]
    ELSE IF outcome.res # Null
         THEN [pc |-> "afterRequest", result |-> outcome.res]
         ELSE [pc |-> "afterRule", result |-> outcome.res]

\* What the handler does with what a rule did (lines 220-222, 233): a
\* result, null included, goes to the afterRule round; a throw leaves the
\* rule loop for the catch block.
ruleDone(outcome) ==
    IF outcome.threw
    THEN [pc |-> "onError", result |-> result]
    ELSE [pc |-> "afterRule", result |-> outcome.res]

\* Line 220: the rule at ruleIdx is invoked, after its beforeRule round.
runRule ==
    /\ pc = "beforeRule"
    /\ hookIdx > Len(plugins)
    /\ \E outcome \in RuleCalls(CurrentRule, context, closures) :
           LET next == ruleDone(outcome)
           IN  /\ closures' = outcome.closures
               /\ trace' = Append(trace,
                       Event("rule", "-", CurrentRule.name, outcome.res,
                             outcome.threw, context.data, matchingRoute))
               /\ pc' = next.pc
               /\ result' = next.result
               /\ hookIdx' = NextWithHook(next.pc, 1, plugins)
               /\ error' = IF next.pc = "onError"
                           THEN RuleError(CurrentRule)
                           ELSE error
    /\ UNCHANGED <<builderVars, context, matchingRoute, ruleIdx, response,
                   raised, log>>
    /\ UNCHANGED <<parked, legacy>>

\* Variant without the return of lines 224-227: the loop runs every rule.
ruleLoopNoReturn(res, idx, rules) ==
    IF idx < Len(rules)
    THEN [pc |-> "beforeRule", ruleIdx |-> idx + 1, result |-> Null]
    ELSE [pc |-> "afterRequest", ruleIdx |-> idx,
          result |-> IF res # Null THEN res ELSE ResponsesNext]

\* Lines 224-231, after the afterRule round: a non-null result ends the
\* chain; otherwise the next rule, or the pass-through behind the last one.
ruleLoop(res, idx, rules) ==
    IF res # Null
    THEN [pc |-> "afterRequest", ruleIdx |-> idx, result |-> res]
    ELSE IF idx < Len(rules)
         THEN [pc |-> "beforeRule", ruleIdx |-> idx + 1, result |-> Null]
         ELSE [pc |-> "afterRequest", ruleIdx |-> idx, result |-> ResponsesNext]

afterRuleDone ==
    /\ pc = "afterRule"
    /\ hookIdx > Len(plugins)
    /\ LET next == ruleLoop(result, ruleIdx, routes[matchingRoute].rules)
       IN  /\ pc' = next.pc
           /\ ruleIdx' = next.ruleIdx
           /\ result' = next.result
           /\ hookIdx' = NextWithHook(next.pc, 1, plugins)
    /\ UNCHANGED <<builderVars, context, matchingRoute, error, response,
                   raised, trace, log>>
    /\ UNCHANGED otherVars

\* Lines 204, 226, 232: the handler returns `result` after the afterRequest
\* round.
returnResult ==
    /\ pc = "afterRequest"
    /\ hookIdx > Len(plugins)
    /\ response' = result
    /\ pc' = "done"
    /\ UNCHANGED <<builderVars, context, matchingRoute, ruleIdx, hookIdx,
                   result, error, raised, trace, log>>
    /\ UNCHANGED otherVars

\* Variant without the try/catch of lines 167-174: the throw of an onError
\* hook leaves the handler.
onErrorDoneNoCatch(outcome, idx, ps) ==
    IF outcome = "result"
    THEN [pc |-> "done", hookIdx |-> idx, response |-> OnErrorResult(ps[idx]),
          raised |-> FALSE]
    ELSE IF outcome = "throw"
         THEN [pc |-> "done", hookIdx |-> idx, response |-> Null,
               raised |-> TRUE]
         ELSE [pc |-> "onError", hookIdx |-> NextWithHook("onError", idx + 1, ps),
               response |-> Null, raised |-> FALSE]

\* Variant without the return of line 170: only the last plugin's result
\* counts.
onErrorDoneLast(outcome, idx, ps) ==
    IF outcome = "result" /\ NextWithHook("onError", idx + 1, ps) > Len(ps)
    THEN [pc |-> "done", hookIdx |-> idx, response |-> OnErrorResult(ps[idx]),
          raised |-> FALSE]
    ELSE [pc |-> "onError", hookIdx |-> NextWithHook("onError", idx + 1, ps),
          response |-> Null, raised |-> FALSE]

\* Where handlePluginErrors stands once plugin idx's onError has ended
\* (lines 167-174): a result is returned, null goes on to the next plugin,
\* and a throw is caught and goes on as well.
onErrorDone(outcome, idx, ps) ==
    IF outcome = "result"
    THEN [pc |-> "done", hookIdx |-> idx, response |-> OnErrorResult(ps[idx]),
          raised |-> FALSE]
    ELSE [pc |-> "onError", hookIdx |-> NextWithHook("onError", idx + 1, ps),
          response |-> Null, raised |-> FALSE]

\* One turn of handlePluginErrors' loop (lines 165-176), entered from the
\* handler's catch block (line 234).
handlePluginErrors ==
    /\ pc = "onError"
    /\ hookIdx <= Len(plugins)
    /\ \E outcome \in plugins[hookIdx].onError :
           LET next == onErrorDone(outcome, hookIdx, plugins)
           IN  /\ trace' = Append(trace,
                       Event("onError", plugins[hookIdx].name, error.name,
                             IF outcome = "result"
                             THEN OnErrorResult(plugins[hookIdx])
                             ELSE Null,
                             outcome = "throw", context.data, matchingRoute))
               /\ log' = IF outcome = "throw"
                         THEN log \cup {<<plugins[hookIdx].name, "onError">>}
                         ELSE log
               /\ pc' = next.pc
               /\ hookIdx' = next.hookIdx
               /\ response' = next.response
               /\ raised' = next.raised
    /\ UNCHANGED <<builderVars, context, matchingRoute, ruleIdx, result, error>>
    /\ UNCHANGED otherVars

\* Variant without the '/*' branch of lines 243-246.
isAuthPathExactOnly(path, aps) ==
    \E i \in 1..Len(aps) : path = aps[i]

\* Lines 242-248.
isAuthPath(path, aps) ==
    \E i \in 1..Len(aps) :
        IF EndsWith(aps[i], <<"/", "*">>)
        THEN StartsWith(path, DropLast(aps[i], 2))
        ELSE path = aps[i]

\* Lines 238-254: no plugin supplied a result.
defaultErrorPolicy ==
    /\ pc = "onError"
    /\ hookIdx > Len(plugins)
    /\ response' = IF isAuthPath(context.path, authPaths)
                   THEN ResponsesNext
                   ELSE ResponsesRedirect(SignIn)
    /\ pc' = "done"
    /\ UNCHANGED <<builderVars, context, matchingRoute, ruleIdx, hookIdx,
                   result, error, raised, trace, log>>
    /\ UNCHANGED otherVars

(***************************************************************************)
(* The inputs of the registration calls.                                   *)
(***************************************************************************)
ExactCalls ==
    { [path |-> PathC, rules |-> Chain(0)] }

PrefixCalls ==
    { [path |-> PathA, rules |-> Chain(MaxRules)] }

RouteCalls ==
    { [path |-> PatternAStar,
       options |-> [rules |-> Chain(1), isExact |-> "false",
                    metadata |-> RouteMetadataOption]] }

AuthPathCalls == {<<PathC>>}

Next ==
    \/ \E plugin \in PluginCatalogue : use(plugin)
    \/ \E paths \in AuthPathCalls : registerAuthPaths(paths)
    \/ \E c \in ExactCalls : exact(c.path, c.rules)
    \/ \E c \in PrefixCalls : prefix(c.path, c.rules)
    \/ \E c \in RouteCalls : route(c.path, c.options)
    \/ build
    \/ \E path \in RequestPaths : Handle(path)
    \/ executePluginHook
    \/ resolveRoute
    \/ fetchUser
    \/ runRule
    \/ afterRuleDone
    \/ returnResult
    \/ handlePluginErrors
    \/ defaultErrorPolicy

Spec == Init /\ [][Next]_vars

\* Every awaited call of a request in flight settles: the steps of the
\* handler, as opposed to the calls its caller chooses to make.
HandlerStep ==
    \/ executePluginHook
    \/ resolveRoute
    \/ fetchUser
    \/ runRule
    \/ afterRuleDone
    \/ returnResult
    \/ handlePluginErrors
    \/ defaultErrorPolicy

FairSpec == Init /\ [][Next]_vars /\ WF_vars(HandlerStep)

(***************************************************************************)
(* Reading the trace of the request in flight.                             *)
(***************************************************************************)
IsPrefix(s, t) == Len(s) <= Len(t) /\ SubSeq(t, 1, Len(s)) = s

EventsOf(kind) ==
    LET Is(e) == e.ev = kind
    IN  SelectSeq(trace, Is)

RuleEvents == EventsOf("rule")
FetchEvents == EventsOf("fetchUser")
ResolveEvents == EventsOf("findMatchingRoute")
OnErrorEvents == EventsOf("onError")

Done == pc = "done"

\* A rule or fetchUser threw: the request-level failures.
RequestFailed == \E i \in 1..Len(trace) :
    trace[i].ev \in {"rule", "fetchUser"} /\ trace[i].threw

\* Nothing threw at all: no hook, no rule, no fetchUser.
NothingThrew == log = {} /\ \A i \in 1..Len(trace) : ~trace[i].threw

\* The plugins that define `hook`, in registration order.
PluginsWith(hook) ==
    LET Has(p) == hook \in p.hooks
    IN  SelectSeq(plugins, Has)

\* One round of `hook`: every plugin that defines it, in registration order.
Round(hook, rule, res, data, m) ==
    LET ps == PluginsWith(hook)
    IN  [i \in 1..Len(ps) |-> Event(hook, ps[i].name, rule, res, FALSE, data, m)]

\* The result that ended the rule chain, Null if none did so far.
DecisionOf(ruleEvents) ==
    IF ruleEvents # <<>> /\ ~ruleEvents[Len(ruleEvents)].threw
    THEN ruleEvents[Len(ruleEvents)].res
    ELSE Null

Decision == DecisionOf(RuleEvents)

\* The response of a request that did not fail.
FinalResult ==
    LET decision == Decision
    IN  IF decision # Null THEN decision ELSE ResponsesNext

\* beforeRule round, rule, afterRule round, for the first n rules invoked.
RECURSIVE RuleRounds(_, _, _, _)
RuleRounds(ruleEvents, n, data, m) ==
    IF n = 0
    THEN <<>>
    ELSE RuleRounds(ruleEvents, n - 1, data, m)
             \o Round("beforeRule", ruleEvents[n].rule, Null, data, m)
             \o <<ruleEvents[n]>>
             \o Round("afterRule", ruleEvents[n].rule, ruleEvents[n].res, data, m)

\* The documented order of the calls of a request, given what route
\* resolution, fetchUser and the rules invoked so far returned: the calls up
\* to the end of the round that follows the last of them.
ExpectedTrace ==
    LET before == Round("beforeRequest", "-", Null, NullData, 0)
        resolves == ResolveEvents
        fetches == FetchEvents
        ruleEvents == RuleEvents
    IN  IF resolves = <<>>
        THEN before
        ELSE LET m == resolves[1].route
             IN  IF m = 0
                 THEN before \o <<resolves[1]>>
                          \o Round("afterRequest", "-", ResponsesNext, NullData, 0)
                 ELSE IF fetches = <<>>
                      THEN before \o <<resolves[1]>>
                      ELSE LET d == fetches[1].data
                               n == Len(ruleEvents)
                               rules == routes[m].rules
                               decision == DecisionOf(ruleEvents)
                           IN  before \o <<resolves[1], fetches[1]>>
                                   \o RuleRounds(ruleEvents, n, d, m)
                                   \o (IF n = Len(rules) \/ decision # Null
                                       THEN Round("afterRequest", "-",
                                                  IF decision # Null
                                                  THEN decision
                                                  ELSE ResponsesNext, d, m)
                                       ELSE Round("beforeRule", rules[n + 1].name,
                                                  Null, d, m))

\* The rules of the matched route.
MatchedRules == IF matchingRoute = 0 THEN <<>> ELSE routes[matchingRoute].rules

(***************************************************************************)
(* C1. Rule chain short-circuit: the rules of the matched route are        *)
(* invoked in registration order; the first rule that returns a non-null   *)
(* result ends the chain, no later rule is invoked, and the handler's      *)
(* response is exactly that result; if every rule returns null the         *)
(* response is a pass-through.                                             *)
(***************************************************************************)
C1_RuleChainShortCircuit ==
    LET invoked == RuleEvents
        rules == MatchedRules
        decision == DecisionOf(invoked)
    IN  /\ Len(invoked) <= Len(rules)
        /\ \A k \in 1..Len(invoked) :
               /\ invoked[k].rule = rules[k].name
               /\ k < Len(invoked) =>
                      invoked[k].res = Null /\ ~invoked[k].threw
        /\ (Done /\ decision # Null) => response = decision
        /\ (Done /\ matchingRoute # 0 /\ ~RequestFailed /\ decision = Null) =>
               /\ Len(invoked) = Len(rules)
               /\ response = ResponsesNext

\* R1 passed, R2 decided, R3 was never invoked, and the response is R2's.
C1_Witness ==
    /\ Done
    /\ Len(MatchedRules) = 3
    /\ Len(RuleEvents) = 2
    /\ RuleEvents[1].res = Null
    /\ RuleEvents[2].res = ResponsesJson("R2", 200)
    /\ response = ResponsesJson("R2", 200)

(***************************************************************************)
(* C2. Hook ordering within one request when nothing throws: the           *)
(* beforeRequest round runs first and before route resolution; for each    *)
(* executed rule r, in registration order, the beforeRule(r) round runs    *)
(* immediately before r and the afterRule(r, result of r) round            *)
(* immediately after r; the afterRequest round runs last.  Inside a round  *)
(* the plugins are invoked in registration order.  The calls made so far   *)
(* are always an initial part of the documented order, and all of it once  *)
(* the handler has returned.                                               *)
(***************************************************************************)
C2_HookOrdering ==
    NothingThrew =>
        LET expected == ExpectedTrace
        IN  /\ IsPrefix(trace, expected)
            /\ Done => trace = expected

\* Two plugins, three rules that all passed, nothing threw: every round of
\* the request has run.
C2_Witness ==
    /\ Done
    /\ NothingThrew
    /\ Len(PluginsWith("beforeRule")) = 2
    /\ Len(RuleEvents) = 3
    /\ Len(trace) = 2 + 2 + (3 * 5) + 2

(***************************************************************************)
(* C3. For every request that completes without an uncaught failure        *)
(* (no-match, all rules pass, or a rule returns a result), each plugin's   *)
(* afterRequest hook is invoked exactly once, after all rule and afterRule *)
(* steps, and with the very response value that the handler returns.       *)
(***************************************************************************)
AfterRequestCalls(name) ==
    {i \in 1..Len(trace) : trace[i].ev = "afterRequest" /\ trace[i].plugin = name}

C3_AfterRequestOnce ==
    /\ \A p \in PluginCatalogue : Cardinality(AfterRequestCalls(p.name)) <= 1
    /\ (Done /\ ~RequestFailed) =>
           \A k \in 1..Len(plugins) :
               "afterRequest" \in plugins[k].hooks =>
                   \E i \in 1..Len(trace) :
                       /\ AfterRequestCalls(plugins[k].name) = {i}
                       /\ trace[i].res = response
                       /\ \A j \in 1..Len(trace) :
                              trace[j].ev \in {"rule", "afterRule", "beforeRule",
                                               "fetchUser", "findMatchingRoute"}
                                  => j < i

\* A rule decided, and both plugins' afterRequest saw the rule's response.
C3_Witness ==
    /\ Done
    /\ Decision # Null
    /\ response = Decision
    /\ Len(PluginsWith("afterRequest")) = 2
    /\ trace[Len(trace)].ev = "afterRequest"
    /\ trace[Len(trace) - 1].ev = "afterRequest"
    /\ trace[Len(trace)].res = Decision

(***************************************************************************)
(* C4. Plugin isolation: if a plugin's beforeRequest, beforeRule,          *)
(* afterRule or afterRequest hook throws, the failure is swallowed: the    *)
(* same hook of every later-registered plugin is still invoked, route      *)
(* resolution, user fetch, rule execution and afterRequest still run, the  *)
(* onError chain is not entered, and the handler's response is the same as *)
(* if that hook had not thrown.                                            *)
(***************************************************************************)
\* Some beforeRequest, beforeRule, afterRule or afterRequest hook threw.
HookThrew == \E line \in log : line[2] \in HookNames

C4_PluginIsolation ==
    /\ error.from # "hook"
    /\ (pc = "onError" \/ OnErrorEvents # <<>>) => RequestFailed
    /\ (HookThrew /\ ~RequestFailed) =>
           LET expected == ExpectedTrace
           IN  /\ IsPrefix(trace, expected)
               /\ Done => /\ trace = expected
                          /\ response = FinalResult

\* The first plugin's beforeRequest threw; the second plugin's beforeRequest
\* ran all the same, and so did resolution, fetchUser, a rule that decided
\* and the afterRequest round.
C4_Witness ==
    /\ Done
    /\ Len(plugins) = 2
    /\ plugins[1] = FlakyPlugin
    /\ plugins[2] = LoggingPlugin
    /\ <<"flaky", "beforeRequest">> \in log
    /\ trace[2].ev = "beforeRequest"
    /\ trace[2].plugin = "logging"
    /\ Decision # Null
    /\ response = Decision
    /\ trace[Len(trace)].ev = "afterRequest"

(***************************************************************************)
(* C5. onError chain: when an uncaught failure occurs in user fetch or     *)
(* rule execution, the plugins' onError hooks are invoked in registration  *)
(* order; the first one that returns a non-null result makes that result   *)
(* the handler's response and no later plugin's onError is invoked; a      *)
(* plugin whose onError throws is skipped (the chain continues with the    *)
(* next plugin) and its exception never reaches the caller.                *)
(***************************************************************************)
C5_OnErrorChain ==
    LET handlers == PluginsWith("onError")
        asked == OnErrorEvents
        n == Len(asked)
    IN  /\ n <= Len(handlers)
        /\ \A k \in 1..n :
               /\ asked[k].plugin = handlers[k].name
               /\ k < n => asked[k].res = Null
        /\ RequestFailed => pc \in {"onError", "done"}
        /\ (Done /\ n > 0 /\ asked[n].res # Null) => response = asked[n].res
        /\ (Done /\ RequestFailed /\ (n = 0 \/ asked[n].res = Null)) =>
               n = Len(handlers)
        /\ ~raised

\* Three plugins define onError: the first one's threw, the second one's
\* was invoked and supplied the response, and the third was not asked.
C5_Witness ==
    /\ Done
    /\ Len(PluginsWith("onError")) = 3
    /\ Len(OnErrorEvents) = 2
    /\ OnErrorEvents[1].threw
    /\ OnErrorEvents[2].res # Null
    /\ response = OnErrorEvents[2].res
    /\ ~raised

(***************************************************************************)
(* C6. Default error policy of the built handler: when a request-level     *)
(* failure occurs and no plugin's onError supplies a result, the response  *)
(* is a pass-through if the request path is one of the configured          *)
(* authPaths (equal to an entry, or beginning with what precedes the '/*'  *)
(* of an entry that ends in '/*'), and otherwise a redirect to '/sign-in'. *)
(***************************************************************************)
\* No onError hook supplied a result for the failed request.
Unrecovered ==
    /\ RequestFailed
    /\ \A i \in 1..Len(trace) : trace[i].ev = "onError" => trace[i].res = Null

\* `path` is covered by the entry `entry` of authPaths.
CoveredBy(path, entry) ==
    \/ path = entry
    \/ /\ Len(entry) >= 2
       /\ entry[Len(entry) - 1] = "/"
       /\ entry[Len(entry)] = "*"
       /\ Len(path) >= Len(entry) - 2
       /\ \A i \in 1..(Len(entry) - 2) : path[i] = entry[i]

OnAuthPath == \E k \in 1..Len(authPaths) : CoveredBy(context.path, authPaths[k])

C6_WitnessRedirect ==
    /\ Done
    /\ Unrecovered
    /\ context.path = <<"/", "c">>
    /\ authPaths = << <<"/", "a", "/", "*">> >>
    /\ response.type = "redirect"
    /\ response.location = SignIn

(***************************************************************************)
(* C7. The handler returned by build() always produces a response and      *)
(* never raises: for every request and every combination of throwing or    *)
(* non-throwing fetcher, rules and plugin hooks (each of which             *)
(* terminates), the pipeline eventually reaches Done with a response       *)
(* value, and no exception escapes to the caller.                          *)
(***************************************************************************)
InFlight == pc \notin {"idle", "done"}

C7_AlwaysResponds ==
    /\ [](~raised)
    /\ [](Done => response # Null)
    /\ InFlight ~> Done

\* A request in which a hook, a rule and an onError hook all threw, and
\* which ended with a response.
C7_Witness ==
    /\ Done
    /\ HookThrew
    /\ \E i \in 1..Len(trace) : trace[i].ev = "rule" /\ trace[i].threw
    /\ \E i \in 1..Len(trace) : trace[i].ev = "onError" /\ trace[i].threw
    /\ response # Null
    /\ ~raised

(***************************************************************************)
(* C8. In the built handler, when a route matches and the user-data        *)
(* fetcher throws, the request enters ErrorHandling (onError chain, then   *)
(* default policy) and no rule of the matched route is invoked; when the   *)
(* fetcher returns null there is no failure: null becomes context.data and *)
(* the rules of the matched route run with it.                             *)
(***************************************************************************)
\* fetchUser threw / resolved to null for the request in flight.
FetchThrew ==
    \E i \in 1..Len(trace) : trace[i].ev = "fetchUser" /\ trace[i].threw
FetchedNull ==
    \E i \in 1..Len(trace) :
        /\ trace[i].ev = "fetchUser"
        /\ ~trace[i].threw
        /\ trace[i].data = NullData

\* The request is in ErrorHandling, or has left it with a response.
EnteredErrorHandling == pc \in {"onError", "done"} /\ error # NoError

C8_FetchFailure ==
    LET invoked == RuleEvents
    IN  /\ FetchThrew =>
               /\ EnteredErrorHandling
               /\ error = FetchError
               /\ invoked = <<>>
        /\ FetchedNull =>
               /\ error # FetchError
               /\ context.data = NullData
               /\ \A k \in 1..Len(invoked) : invoked[k].data = NullData
               /\ (Done /\ MatchedRules # <<>>) => invoked # <<>>

\* As first stated: a fetcher that returns null is a failure as well, and
\* no rule of the matched route is invoked.
C8_AsStated ==
    (FetchThrew \/ FetchedNull) =>
        /\ EnteredErrorHandling
        /\ RuleEvents = <<>>

\* fetchUser resolved to null, and a rule of the matched route was invoked
\* with context.data = null and decided the response.
C8_Witness ==
    /\ Done
    /\ FetchedNull
    /\ RuleEvents # <<>>
    /\ RuleEvents[1].data = NullData
    /\ error = NoError
    /\ response = Decision
    /\ Decision # Null

\* fetchUser threw on a matched route with rules: no rule ran, and the
\* default policy answered.
C8_WitnessThrow ==
    /\ Done
    /\ FetchThrew
    /\ MatchedRules # <<>>
    /\ RuleEvents = <<>>
    /\ response.type = "redirect"

(***************************************************************************)
(* C9. NoMatch: when no registered route matches the request path, the     *)
(* handler returns a pass-through response, the afterRequest round still   *)
(* runs with that response, the user-data fetcher is never invoked, and no *)
(* rule, beforeRule or afterRule step runs.                                *)
(***************************************************************************)
NoRouteMatches ==
    \A i \in 1..Len(routes) :
        ~matchRoute(context.path, routes[i].pattern, routes[i].isExact,
                    routes[i].prefix)

C9_NoMatch ==
    (pc # "idle" /\ NoRouteMatches) =>
        /\ matchingRoute = 0
        /\ \A i \in 1..Len(trace) :
               trace[i].ev \in {"beforeRequest", "findMatchingRoute", "afterRequest"}
        /\ LET calls == Round("beforeRequest", "-", Null, NullData, 0)
                            \o <<Event("findMatchingRoute", "-", "-", Null, FALSE,
                                       NullData, 0)>>
                            \o Round("afterRequest", "-", ResponsesNext, NullData, 0)
           IN  /\ IsPrefix(trace, calls)
               /\ Done => trace = calls /\ response = ResponsesNext

\* Routes are registered, none matches '/ab', and the request ended with a
\* pass-through after an afterRequest call that was handed it.
C9_Witness ==
    /\ Done
    /\ Len(routes) = 2
    /\ NoRouteMatches
    /\ response = ResponsesNext
    /\ trace[Len(trace)].ev = "afterRequest"
    /\ trace[Len(trace)].res = ResponsesNext

(***************************************************************************)
(* C10. Rule failure is a request-level failure: when a rule of the        *)
(* matched route throws, no later rule of that route is invoked, the error *)
(* is not isolated per rule but handed to the onError chain, and the       *)
(* response comes from that chain or from the default error policy.        *)
(***************************************************************************)
\* The positions in the trace of the rule invocations that threw.
RuleThrows == {i \in 1..Len(trace) : trace[i].ev = "rule" /\ trace[i].threw}

C10_RuleFailure ==
    \A i \in RuleThrows :
        /\ \A j \in (i + 1)..Len(trace) :
               /\ trace[j].ev = "onError"
               /\ trace[j].rule = trace[i].rule
        /\ EnteredErrorHandling
        /\ error = [from |-> "rule", name |-> trace[i].rule]
        /\ Done =>
               \/ /\ trace[Len(trace)].ev = "onError"
                  /\ trace[Len(trace)].res # Null
                  /\ response = trace[Len(trace)].res
               \/ /\ Unrecovered
                  /\ response \in {ResponsesNext, ResponsesRedirect(SignIn)}

\* R2 threw in a chain of three: R3 was never invoked, the afterRule round
\* of R2 did not run, and a plugin's onError supplied the response.
C10_Witness ==
    /\ Done
    /\ Len(MatchedRules) = 3
    /\ Len(RuleEvents) = 2
    /\ RuleEvents[2].threw
    /\ trace[Len(trace)].ev = "onError"
    /\ response = trace[Len(trace)].res
    /\ response # Null

(***************************************************************************)
(* The route table on its own: a builder without plugins whose routes      *)
(* carry no rules, so that a request is route resolution, the fetch and    *)
(* the return.  The patterns cover the forms the registration API takes:   *)
(* a trailing slash, a trailing wildcard, the root, a bracket segment.     *)
(***************************************************************************)
PathASlash == <<"/", "a", "/">>
PathRoot == <<"/">>
PathASubDeep == <<"/", "a", "/", "b", "/", "5">>
PatternUserId == <<"/", "u", "/", "[", "i", "d", "]">>
PathUser42 == <<"/", "u", "/", "4", "2">>

TablePaths == {PathA, PathASub, PathASubDeep, PathAb, PathRoot, PathUser42}

TableExactCalls ==
    { [path |-> p, rules |-> Chain(0)] : p \in {PathASub, PatternUserId} }

TablePrefixCalls ==
    { [path |-> p, rules |-> Chain(0)] :
          p \in {PathA, PathASlash, PatternAStar, PathASub, PathRoot} }

TableRouteCalls ==
    { [path |-> p,
       options |-> [rules |-> Chain(0), isExact |-> e, metadata |-> EmptyObject]] :
          p \in {PathA, PatternAStar}, e \in {"undefined", "false"} }

\* new MiddlewareBuilder({ fetchUser, defaultMetadata })
TableInit ==
    /\ routes = <<>>
    /\ authPaths = <<>>
    /\ plugins = <<>>
    /\ defaultMetadata = DefaultMetadataOption
    /\ fetchUserFn = FetchOutcomes
    /\ built = FALSE
    /\ IdleRequest
    /\ NoOthers

TableNext ==
    \/ \E c \in TableExactCalls : exact(c.path, c.rules)
    \/ \E c \in TablePrefixCalls : prefix(c.path, c.rules)
    \/ \E c \in TableRouteCalls : route(c.path, c.options)
    \/ build
    \/ \E path \in TablePaths : Handle(path)
    \/ resolveRoute
    \/ fetchUser
    \/ returnResult
    \/ defaultErrorPolicy

TableSpec == TableInit /\ [][TableNext]_vars

(***************************************************************************)
(* Reading the route table.                                                *)
(***************************************************************************)
\* Route resolution has run for the request in flight.
Resolved == pc \in {"fetchUser", "afterRequest", "onError", "done"}

RouteMatches(path, r) == matchRoute(path, r.pattern, r.isExact, r.prefix)

\* The '/'-separated parts of a pattern, empty ones included: one more than
\* its slashes.
PartCount(pattern) ==
    Cardinality({k \in 1..Len(pattern) : pattern[k] = "/"}) + 1

\* The non-empty '/'-separated segments of a pattern: the places where one
\* starts.
SegmentCount(pattern) ==
    Cardinality({k \in 1..Len(pattern) :
                    /\ pattern[k] # "/"
                    /\ (k = 1 \/ pattern[k - 1] = "/")})

\* The segments of a prefix pattern: those left once one trailing '/*' is
\* stripped.
PrefixSegmentCount(pattern) ==
    IF EndsWith(pattern, <<"/", "*">>)
    THEN SegmentCount(DropLast(pattern, 2))
    ELSE SegmentCount(pattern)

(***************************************************************************)
(* C11: most-specific prefix wins.  When two prefix routes both match the  *)
(* request path, route resolution never returns the one with fewer prefix  *)
(* segments, whichever of the two was registered first.                    *)
(***************************************************************************)
C11_MostSpecificPrefixWins ==
    Resolved =>
        \A i, j \in 1..Len(routes) :
            ( /\ ~routes[i].isExact
              /\ ~routes[j].isExact
              /\ RouteMatches(context.path, routes[i])
              /\ RouteMatches(context.path, routes[j])
              /\ PrefixSegmentCount(routes[i].pattern)
                     > PrefixSegmentCount(routes[j].pattern) )
            => /\ matchingRoute # 0
               /\ matchingRoute # j

\* '/a' registered before '/a/b', both prefixes of '/a/b/5': the second wins.
C11_Witness ==
    /\ Resolved
    /\ Len(routes) = 2
    /\ ~routes[1].isExact
    /\ ~routes[2].isExact
    /\ RouteMatches(context.path, routes[1])
    /\ RouteMatches(context.path, routes[2])
    /\ PrefixSegmentCount(routes[2].pattern) > PrefixSegmentCount(routes[1].pattern)
    /\ matchingRoute = 2

(***************************************************************************)
(* The priority calculator over deep patterns: one exact and one prefix    *)
(* route registered, in either order, with patterns of 0 .. MaxDepth       *)
(* segments, with and without a trailing slash or wildcard.                *)
(***************************************************************************)
\* '/s/s/.../s' with n segments.
Deep(n) == [k \in 1..(2 * n) |-> IF k % 2 = 1 THEN "/" ELSE "s"]

DeepExactPatterns ==
    { Deep(n) : n \in 1..MaxDepth } \cup { Deep(n) \o <<"/">> : n \in 0..MaxDepth }

DeepPrefixPatterns ==
    { Deep(n) : n \in 1..MaxDepth }
        \cup { Deep(n) \o <<"/", "*">> : n \in 0..MaxDepth }

PriorityNext ==
    \/ \E p \in DeepExactPatterns :
           /\ \A i \in 1..Len(routes) : ~routes[i].isExact
           /\ exact(p, Chain(0))
    \/ \E p \in DeepPrefixPatterns :
           /\ \A i \in 1..Len(routes) : routes[i].isExact
           /\ prefix(p, Chain(0))

PrioritySpec == TableInit /\ [][PriorityNext]_vars

(***************************************************************************)
(* C12: exact outranks prefix.  For patterns that split on '/' into at     *)
(* most 100 parts (99 segments behind a leading slash), every exact        *)
(* pattern's priority is below every prefix pattern's, and the exact route *)
(* is the one resolved for a path both match.                              *)
(***************************************************************************)
C12_ExactOutranksPrefix ==
    \A i, j \in 1..Len(routes) :
        ( /\ routes[i].isExact
          /\ ~routes[j].isExact
          /\ PartCount(routes[i].pattern) <= 100
          /\ PartCount(routes[j].pattern) <= 100 )
        => /\ routes[i].priority < routes[j].priority
           /\ RouteMatches(routes[i].pattern, routes[j])
                  => findMatchingRoute(routes[i].pattern, routes) = i

\* C12 as stated: the same for all patterns of at most 100 segments.
C12_AsStated ==
    \A i, j \in 1..Len(routes) :
        ( /\ routes[i].isExact
          /\ ~routes[j].isExact
          /\ SegmentCount(routes[i].pattern) <= 100
          /\ PrefixSegmentCount(routes[j].pattern) <= 100 )
        => /\ routes[i].priority < routes[j].priority
           /\ RouteMatches(routes[i].pattern, routes[j])
                  => findMatchingRoute(routes[i].pattern, routes) = i

\* A prefix route of 99 segments registered before the exact route of the
\* same 99 segments: the priorities are 1001 and 1000, and the exact route
\* is resolved for the path.
C12_Witness ==
    /\ Len(routes) = 2
    /\ ~routes[1].isExact
    /\ routes[2].isExact
    /\ routes[1].pattern = Deep(99)
    /\ routes[2].pattern = Deep(99)
    /\ RouteMatches(Deep(99), routes[1])
    /\ findMatchingRoute(Deep(99), routes) = 2

(***************************************************************************)
(* C13: no priority ties among competing routes.  Any two distinct         *)
(* registered routes that both match some path have different priority     *)
(* values.  Two routes are taken as distinct when their patterns differ,   *)
(* which leaves aside a pattern registered twice.                          *)
(***************************************************************************)
Competing(i, j) ==
    \E path \in TablePaths :
        /\ RouteMatches(path, routes[i])
        /\ RouteMatches(path, routes[j])

C13_NoPriorityTies ==
    \A i, j \in 1..Len(routes) :
        (routes[i].pattern # routes[j].pattern /\ Competing(i, j))
            => routes[i].priority # routes[j].priority

(***************************************************************************)
(* C14: the priority formula.  An exact pattern's priority is 10 times the *)
(* number of its '/'-separated parts, empty parts included; a prefix       *)
(* pattern's is 1000 + (100 - s) for its s non-empty segments once one     *)
(* trailing '/*' is stripped; equal patterns of one kind have equal        *)
(* priority.                                                               *)
(***************************************************************************)
C14_PriorityFormula ==
    /\ \A i \in 1..Len(routes) :
           routes[i].priority =
               IF routes[i].isExact
               THEN 10 * PartCount(routes[i].pattern)
               ELSE 1000 + (100 - PrefixSegmentCount(routes[i].pattern))
    /\ \A i, j \in 1..Len(routes) :
           ( /\ routes[i].pattern = routes[j].pattern
             /\ routes[i].isExact = routes[j].isExact )
           => routes[i].priority = routes[j].priority

\* C14 as stated: the exact priority is 10 times the number of non-empty
\* segments.
C14_AsStated ==
    /\ \A i \in 1..Len(routes) :
           routes[i].priority =
               IF routes[i].isExact
               THEN 10 * SegmentCount(routes[i].pattern)
               ELSE 1000 + (100 - PrefixSegmentCount(routes[i].pattern))
    /\ \A i, j \in 1..Len(routes) :
           ( /\ routes[i].pattern = routes[j].pattern
             /\ routes[i].isExact = routes[j].isExact )
           => routes[i].priority = routes[j].priority

\* exact('/s/s') has three parts and priority 30; prefix('/s/s/*') has two
\* segments and priority 1098.
C14_Witness ==
    /\ Len(routes) = 2
    /\ routes[1].isExact
    /\ routes[1].pattern = Deep(2)
    /\ routes[1].priority = 30
    /\ ~routes[2].isExact
    /\ routes[2].pattern = Deep(2) \o <<"/", "*">>
    /\ routes[2].priority = 1098

(***************************************************************************)
(* C15: route resolution is deterministic and free of side effects.  The   *)
(* step that resolves the route leaves the route table as it was, contents *)
(* and registration order, and resolving again for the same path and       *)
(* table, at that step or any time later in the request, gives the route   *)
(* it gave.                                                                *)
(***************************************************************************)
C15_ResolutionIsPure ==
    /\ [](Resolved => matchingRoute = findMatchingRoute(context.path, routes))
    /\ [][(pc = "beforeRequest" /\ pc' # "beforeRequest")
              => /\ routes' = routes
                 /\ matchingRoute' = findMatchingRoute(context'.path, routes')]_vars

\* A route resolved from a table that is not in priority order: sorting the
\* table itself would have moved the resolved route.
C15_Witness ==
    /\ Resolved
    /\ Len(routes) = 2
    /\ routes[1].priority > routes[2].priority
    /\ RouteMatches(context.path, routes[1])
    /\ matchingRoute = 2
    /\ pc = "done"

(***************************************************************************)
(* C16: registration order is the tie-break.  The resolved route has the   *)
(* lowest priority value among the routes that match the path, and among   *)
(* the matching routes of that value it is the one registered first.       *)
(***************************************************************************)
\* The matching routes of the lowest priority value among the matching ones.
LowestMatching(path) ==
    LET hits == {k \in 1..Len(routes) : RouteMatches(path, routes[k])}
    IN  {k \in hits : \A j \in hits : routes[k].priority <= routes[j].priority}

C16_RegistrationOrderTieBreak ==
    Resolved =>
        LET low == LowestMatching(context.path)
        IN  IF low = {}
            THEN matchingRoute = 0
            ELSE /\ matchingRoute \in low
                 /\ \A j \in low : matchingRoute <= j

\* Two matching routes share the lowest priority value, and the first
\* registered is the one resolved.
C16_Witness ==
    /\ Resolved
    /\ Cardinality(LowestMatching(context.path)) >= 2
    /\ matchingRoute = 1
    /\ 2 \in LowestMatching(context.path)
    /\ routes[1] # routes[2]

(***************************************************************************)
(* C17: prefix matching.  A route registered with prefix(pattern) matches  *)
(* a path if and only if the path is p or starts with p + '/', where p is  *)
(* the pattern with a trailing '/*' removed and without a trailing slash.  *)
(***************************************************************************)
\* The pattern with a trailing '/*' removed and without a trailing slash.
NormalizedPrefix(pattern) ==
    LET q == IF EndsWith(pattern, <<"/", "*">>) THEN DropLast(pattern, 2) ELSE pattern
    IN  IF EndsWith(q, <<"/">>) THEN DropLast(q, 1) ELSE q

\* The routes prefix() registered: it alone stores a prefix with every
\* pattern of TablePrefixCalls.
RegisteredByPrefix(r) == ~r.isExact /\ r.prefix # Undefined

C17_PrefixMatching ==
    \A i \in 1..Len(routes) :
        RegisteredByPrefix(routes[i]) =>
            \A path \in TablePaths :
                RouteMatches(path, routes[i])
                    <=> LET p == NormalizedPrefix(routes[i].pattern)
                        IN  \/ path = p
                            \/ StartsWith(path, p \o <<"/">>)

(***************************************************************************)
(* C18: bracket segments take part in matching.  A route whose pattern has *)
(* a '[name]' segment is resolved for a request path that has any value at *)
(* that position and is equal to the pattern elsewhere, and params[name]   *)
(* is that path segment.                                                   *)
(***************************************************************************)
IsBracket(part) == StartsWith(part, <<"[">>) /\ EndsWith(part, <<"]">>)

\* The path has as many parts as the pattern, a non-empty value at every
\* bracket part and the pattern's own part everywhere else.
FitsPattern(path, pattern) ==
    LET patternParts == Split(pattern)
        pathParts == Split(path)
    IN  /\ Len(pathParts) = Len(patternParts)
        /\ \E n \in 1..Len(patternParts) : IsBracket(patternParts[n])
        /\ \A n \in 1..Len(patternParts) :
               IF IsBracket(patternParts[n])
               THEN pathParts[n] # <<>>
               ELSE pathParts[n] = patternParts[n]

C18_BracketSegmentsMatch ==
    Resolved =>
        \A i \in 1..Len(routes) :
            (routes[i].isExact /\ FitsPattern(context.path, routes[i].pattern))
            => /\ matchingRoute # 0
               /\ FitsPattern(context.path, routes[matchingRoute].pattern)
               /\ LET patternParts == Split(routes[matchingRoute].pattern)
                      pathParts == Split(context.path)
                  IN  \A n \in 1..Len(patternParts) :
                          IsBracket(patternParts[n]) =>
                              /\ Slice1m1(patternParts[n]) \in DOMAIN context.params
                              /\ context.params[Slice1m1(patternParts[n])]
                                     = pathParts[n]

(***************************************************************************)
(* C19: the params of a matched route are the merge of two extractions.    *)
(* For a prefix match '*' is bound to what follows the slash behind the    *)
(* prefix (the empty string when the path is the prefix); for every        *)
(* '[name]' part of the pattern, name is bound to the path's part at the   *)
(* same index (the empty string when there is none); nothing else is       *)
(* bound.                                                                  *)
(***************************************************************************)
\* The prefix a non-exact route is matched by.
MatchedPrefix(r) == IF Truthy(r.prefix) THEN r.prefix ELSE StripWildcard(r.pattern)

\* What follows the slash behind the prefix.
AfterPrefix(path, p) == IF path = p THEN <<>> ELSE SliceFrom(path, Len(p) + 1)

BracketNames(pattern) ==
    { Slice1m1(Split(pattern)[n]) :
          n \in {k \in 1..Len(Split(pattern)) : IsBracket(Split(pattern)[k])} }

C19_ParamsMerge ==
    (Resolved /\ matchingRoute # 0) =>
        LET r == routes[matchingRoute]
            patternParts == Split(r.pattern)
            pathParts == Split(context.path)
            params == context.params
        IN  /\ ~r.isExact =>
                   /\ <<"*">> \in DOMAIN params
                   /\ params[<<"*">>] = AfterPrefix(context.path, MatchedPrefix(r))
            /\ \A n \in 1..Len(patternParts) :
                   IsBracket(patternParts[n]) =>
                       /\ Slice1m1(patternParts[n]) \in DOMAIN params
                       /\ params[Slice1m1(patternParts[n])]
                              = IF n <= Len(pathParts) THEN pathParts[n] ELSE <<>>
            /\ DOMAIN params =
                   BracketNames(r.pattern)
                       \cup (IF r.isExact THEN {} ELSE {<<"*">>})

(***************************************************************************)
(* C20: route(pattern, {rules, isExact: false}) is equivalent to           *)
(* prefix(pattern, ...rules), and route() without isExact to exact().  Two *)
(* registrations of one pattern and one match kind, whichever of the calls *)
(* made them, store the same prefix and priority, match the same paths and *)
(* give the same params for every path they match.                         *)
(***************************************************************************)
RouteParams(path, r) == extractParams(path, r.pattern, r.isExact, r.prefix)

C20_RouteEquivalence ==
    \A i, j \in 1..Len(routes) :
        ( /\ routes[i].pattern = routes[j].pattern
          /\ routes[i].isExact = routes[j].isExact )
        => /\ routes[i].prefix = routes[j].prefix
           /\ routes[i].priority = routes[j].priority
           /\ \A path \in TablePaths :
                  /\ RouteMatches(path, routes[i]) <=> RouteMatches(path, routes[j])
                  /\ RouteMatches(path, routes[i])
                         => RouteParams(path, routes[i]) = RouteParams(path, routes[j])

(***************************************************************************)
(* A pipeline with the CachingPlugin: one guarded prefix, and a storage    *)
(* that may hold an entry for the request.                                 *)
(***************************************************************************)
CacheInit ==
    /\ routes = <<>>
    /\ authPaths = <<>>
    /\ plugins = <<CachingPlugin>>
    /\ defaultMetadata = DefaultMetadataOption
    /\ fetchUserFn = FetchOutcomes
    /\ built = FALSE
    /\ IdleRequest
    /\ NoOthers

CacheNext ==
    \/ prefix(PathA, Chain(2))
    \/ build
    \/ \E path \in RequestPaths : Handle(path)
    \/ executePluginHook
    \/ resolveRoute
    \/ fetchUser
    \/ runRule
    \/ afterRuleDone
    \/ returnResult
    \/ defaultErrorPolicy

CacheSpec == CacheInit /\ [][CacheNext]_vars

\* A beforeRequest hook supplied the request's data from the cache.
CacheHit == "cached" \in DOMAIN context.metadata

\* C21: once a beforeRequest hook (the CachingPlugin on a cache hit) has set
\* context.data, fetchUser is not called for the request and every rule of
\* the matched route is invoked with the data the hook supplied.
C21_HookDataSkipsFetch ==
    CacheHit =>
        /\ FetchEvents = <<>>
        /\ \A k \in 1..Len(RuleEvents) : RuleEvents[k].data = CachedData

(***************************************************************************)
(* Several calls of the built handler in flight.  The handler is an async  *)
(* function: a call runs until an await and another call may run before it *)
(* is resumed.  The call being run is in the request variables; the others *)
(* are in `parked`.                                                        *)
(***************************************************************************)
MaxParked == 1

\* The locals of the call being run.
Running ==
    [pc |-> pc, context |-> context, matchingRoute |-> matchingRoute,
     ruleIdx |-> ruleIdx, hookIdx |-> hookIdx, result |-> result,
     error |-> error, response |-> response, raised |-> raised,
     trace |-> trace, log |-> log]

\* A call that has not started.
IdleCall ==
    [pc |-> "idle", context |-> NoContext, matchingRoute |-> 0, ruleIdx |-> 0,
     hookIdx |-> 0, result |-> Null, error |-> NoError, response |-> Null,
     raised |-> FALSE, trace |-> <<>>, log |-> {}]

\* Variant: the context is kept in a field of the builder, so a resumed
\* call finds what the call that ran last left there.
contextShared(own, last) == last

\* Lines 189-195: `context` is a const local of the call, so a resumed call
\* finds its own.
contextOfCall(own, last) == own

\* The event loop leaves the call being run at its await and resumes, or
\* starts, call i.
Switch(i) ==
    /\ built
    /\ parked' = [parked EXCEPT ![i] = Running]
    /\ pc' = parked[i].pc
    /\ context' = contextOfCall(parked[i].context, context)
    /\ matchingRoute' = parked[i].matchingRoute
    /\ ruleIdx' = parked[i].ruleIdx
    /\ hookIdx' = parked[i].hookIdx
    /\ result' = parked[i].result
    /\ error' = parked[i].error
    /\ response' = parked[i].response
    /\ raised' = parked[i].raised
    /\ trace' = parked[i].trace
    /\ log' = parked[i].log
    /\ UNCHANGED <<builderVars, legacy, closures>>

ConcurrentPaths == {PathASub, PathC}

ConcurrentInit ==
    /\ routes = <<>>
    /\ authPaths = <<>>
    /\ plugins = <<LoggingPlugin>>
    /\ defaultMetadata = DefaultMetadataOption
    /\ fetchUserFn = FetchOutcomes
    /\ built = FALSE
    /\ IdleRequest
    /\ parked = [i \in 1..MaxParked |-> IdleCall]
    /\ legacy = NoLegacy
    /\ closures = NoClosures

ConcurrentNext ==
    \/ routes = <<>> /\ prefix(PathA, Chain(1))
    \/ build
    \/ \E path \in ConcurrentPaths : Handle(path)
    \/ \E i \in 1..Len(parked) : Switch(i)
    \/ executePluginHook
    \/ resolveRoute
    \/ fetchUser
    \/ runRule
    \/ afterRuleDone
    \/ returnResult
    \/ handlePluginErrors
    \/ defaultErrorPolicy

ConcurrentSpec == ConcurrentInit /\ [][ConcurrentNext]_vars

\* What fetchUser resolved to for the call being run, null before it did.
FetchedData ==
    IF FetchEvents # <<>> /\ ~FetchEvents[1].threw
    THEN FetchEvents[1].data
    ELSE NullData

(***************************************************************************)
(* C22. Concurrent requests are independent: with the steps of several     *)
(* calls of the handler interleaved in any order, the context of a call is *)
(* made of its own path, the route resolved for that path and the data its *)
(* own fetchUser returned, and its calls and its response are those of the *)
(* same request served alone: the documented order (C2) and the decision   *)
(* of its own rules.  Every call in flight is the call being run again and *)
(* again, so this holds of each of them at each of its steps.              *)
(***************************************************************************)
C22_ConcurrentRequestsIndependent ==
    LET m == matchingRoute
        expected == ExpectedTrace
    IN  /\ pc # "idle" => context.path \in ConcurrentPaths
        /\ ResolveEvents # <<>> =>
               /\ ResolveEvents[1].route = findMatchingRoute(context.path, routes)
               /\ m = ResolveEvents[1].route
        /\ ResolveEvents = <<>> => m = 0
        /\ context.data = FetchedData
        /\ context.params =
               IF m = 0
               THEN EmptyObject
               ELSE extractParams(context.path, routes[m].pattern,
                                  routes[m].isExact, routes[m].prefix)
        /\ pc # "idle" => context.metadata =
               IF m = 0
               THEN defaultMetadata
               ELSE Spread(defaultMetadata, routes[m].metadata)
        /\ \A k \in 1..Len(trace) :
               trace[k].ev # "fetchUser" =>
                   trace[k].data =
                       IF \E j \in 1..(k - 1) : trace[j].ev = "fetchUser"
                       THEN FetchedData
                       ELSE NullData
        /\ NothingThrew =>
               /\ IsPrefix(trace, expected)
               /\ Done => trace = expected /\ response = FinalResult

\* Two requests for the guarded path in flight at once, with different user
\* data: one has returned its rule's response, the other is between its
\* rule and the afterRule round.
C22_Witness ==
    /\ Done
    /\ context.path = PathASub
    /\ context.data = "user"
    /\ response = ResponsesJson("R1", 200)
    /\ Len(parked) >= 1
    /\ parked[1].pc = "afterRule"
    /\ parked[1].context.path = PathASub
    /\ parked[1].context.data = NullData
    /\ parked[1].trace # <<>>

(***************************************************************************)
(* legacy/middleware: the legacy Middleware class.  `legacy` holds the     *)
(* instance's fields (rules, authPaths, onError) and the locals of its     *)
(* handle() call in flight, one step per awaited call.  A legacy rule is   *)
(* the caller's function; the params object it is handed is not modelled,  *)
(* only what the rule does with next() and redirect().                     *)
(***************************************************************************)
MaxLegacyPatterns == 2
MaxLegacyRules == 2

isWildcard(path) == EndsWith(path, <<"/", "*">>)

\* Lines 61-73, and the same test inline at lines 167-177: every part of
\* the pattern is '*', a '[name]', or equal to the pathname's part at the
\* same index (undefined, and so unequal, behind the pathname's last part).
match(path, pathname) ==
    LET pathParts == Split(path)
        pathnameParts == Split(pathname)
    IN  \A index \in 1..Len(pathParts) :
            \/ pathParts[index] = <<"*">>
            \/ IsBracket(pathParts[index])
            \/ /\ index <= Len(pathnameParts)
               /\ pathParts[index] = pathnameParts[index]

\* Variant: a comparator that prefers neither kind of pattern.
comparePathsFlat(a, b) == 0 - 1

\* The comparator of lines 79-84.
comparePaths(a, b) == IF isWildcard(a) /\ ~isWildcard(b) THEN 1 ELSE 0 - 1

\* paths.sort(comparator), lines 78-85.  The comparator never returns 0: of
\* two patterns of the same kind it calls each the smaller one, so it is
\* not a consistent comparison function and Array.prototype.sort leaves the
\* order to the implementation wherever it contradicts itself (V8 returns
\* such patterns reversed, a merge sort returns them as they were).  The
\* results are the orders that agree with it wherever it does not.
sortPaths(paths) ==
    LET n == Len(paths)
        orders == {f \in [1..n -> 1..n] : \A i, j \in 1..n : i # j => f[i] # f[j]}
        sorted(f) == [k \in 1..n |-> paths[f[k]]]
        Inverted(a, b) == comparePaths(a, b) > 0 /\ comparePaths(b, a) < 0
    IN  { sorted(f) : f \in
            {g \in orders : \A i, j \in 1..n :
                i < j => ~Inverted(paths[g[i]], paths[g[j]])} }

\* Variant: once next() was called the request passes, redirect or not.
applyReturnNextWins(nextCalled, redirectPath, pathname) ==
    IF nextCalled \/ ~Truthy(redirectPath) \/ redirectPath = pathname
    THEN ResponsesNext
    ELSE ResponsesRedirect(redirectPath)

\* Lines 149-156: what apply returns behind the rule loop.
applyReturn(nextCalled, redirectPath, pathname) ==
    IF ~nextCalled /\ ~Truthy(redirectPath)
    THEN ResponsesNext
    ELSE IF Truthy(redirectPath) /\ redirectPath # pathname
         THEN ResponsesRedirect(redirectPath)
         ELSE ResponsesNext

\* Variant without the break of lines 141-143.
afterLegacyRuleNoBreak(redirectPath, idx, n) == idx + 1

\* Lines 141-146: the position of the rule loop behind rule idx of n; a
\* recorded redirect leaves the loop.
afterLegacyRule(redirectPath, idx, n) ==
    IF Truthy(redirectPath) THEN n + 1 ELSE idx + 1

\* Variant: the rules applied are those of the last sorted pattern.
appliedPathLast(sortedPaths) == sortedPaths[Len(sortedPaths)]

\* Lines 95-157: every way through the body of `for (const path of
\* sortedPaths)` ends in a return, so the loop has one round only, for
\* the first sorted pattern.
appliedPath(sortedPaths) == sortedPaths[1]

\* Variant: every pathname is protected.
authGateOpen(aps, pathname) == TRUE

\* Lines 165-179: this.authPaths.some(...).
authGate(aps, pathname) == \E i \in 1..Len(aps) : match(aps[i], pathname)

\* Variant: only a throw of fetch is a failure.
fetchFailedThrowOnly(outcome) == outcome.threw

\* Lines 181-184: fetch threw, or resolved to a falsy value.
fetchFailed(outcome) == outcome.threw \/ outcome.data = NullData

\* Inputs of the legacy Middleware: patterns, pathnames, rule lists.
PatternAId == <<"/", "a", "/", "[", "i", "d", "]">>
PatternStar == <<"/", "*">>
PathASubSub == <<"/", "a", "/", "b", "/", "c">>
LegacyPatterns == {PatternAStar, PatternStar, PathASub, PatternAId}
LegacyPaths == {PathA, PathASub, PathASubSub, PathC}
LegacyRuleList == [i \in 1..MaxLegacyRules |-> RuleNames[i]]

\* options.rules: an object from patterns to rule lists, as its keys in
\* insertion order (Object.keys, line 91).
LegacyRuleTables ==
    { [k \in 1..Len(keys) |-> [pattern |-> keys[k], rules |-> LegacyRuleList]] :
        keys \in { ks \in UNION {[1..n -> LegacyPatterns] : n \in 0..MaxLegacyPatterns} :
                      \A i, j \in 1..Len(ks) : i # j => ks[i] # ks[j] } }

\* What one call of a legacy rule can do: call next(), call redirect(path)
\* with a route of the application or with the current pathname, or throw.
LegacyRuleOutcomes(pathname) ==
    { [next |-> n, redirect |-> r, threw |-> FALSE] :
        n \in BOOLEAN, r \in {Undefined, SignIn, pathname} }
        \cup { [next |-> FALSE, redirect |-> Undefined, threw |-> TRUE] }

\* The response an injected onError returns.
LegacyOnErrorResult == ResponsesJson("onError", 500)

\* new Middleware(options), lines 22-27.
Constructed(options) ==
    [NoLegacy EXCEPT !.rules = options.rules, !.authPaths = options.authPaths,
                     !.onError = options.onError, !.pc = "idle"]

LegacyInit ==
    /\ routes = <<>>
    /\ authPaths = <<>>
    /\ plugins = <<>>
    /\ defaultMetadata = DefaultMetadataOption
    /\ fetchUserFn = FetchOutcomes
    /\ built = FALSE
    /\ IdleRequest
    /\ parked = <<>>
    /\ closures = NoClosures
    /\ legacy \in { Constructed(options) : options \in
                       [rules : LegacyRuleTables,
                        authPaths : {<<PatternAStar>>, <<PathASub>>},
                        onError : BOOLEAN] }

\* this.rules[path] || [], line 96.
rulesOf(path) ==
    LET at == {k \in 1..Len(legacy.rules) : legacy.rules[k].pattern = path}
    IN  IF at = {} THEN <<>> ELSE legacy.rules[CHOOSE k \in at : TRUE].rules

\* allPaths.filter(...), lines 91-92.
matchedPaths ==
    LET allPaths == [k \in 1..Len(legacy.rules) |-> legacy.rules[k].pattern]
    IN  SelectSeq(allPaths, LAMBDA path : match(path, legacy.pathname))

LegacyEvent(ev, path, idx, outcome) ==
    [ev |-> ev, pattern |-> path, idx |-> idx, next |-> outcome.next,
     redirect |-> outcome.redirect, threw |-> outcome.threw]

NoOutcome == [next |-> FALSE, redirect |-> Undefined, threw |-> FALSE]

\* handle(req), lines 163-179 and 191-193: a pathname outside authPaths is
\* passed through; for one inside, fetch is called.
LegacyHandle(pathname) ==
    /\ legacy.pc \in {"idle", "done"}
    /\ legacy' =
           LET call == [legacy EXCEPT
                   !.pathname = pathname, !.data = NullData,
                   !.sortedPaths = <<>>, !.ruleIdx = 0, !.nextCalled = FALSE,
                   !.redirectPath = Undefined, !.response = Null,
                   !.raised = FALSE, !.trace = <<>>]
           IN  IF authGate(legacy.authPaths, pathname)
               THEN [call EXCEPT !.pc = "fetch"]
               ELSE [call EXCEPT !.pc = "done", !.response = ResponsesNext]
    /\ UNCHANGED <<builderVars, requestVars, parked, closures>>

\* Lines 181-184: fetch settles.
LegacyFetch ==
    /\ legacy.pc = "fetch"
    /\ \E outcome \in FetchOutcomes :
           legacy' = [legacy EXCEPT
               !.trace = Append(@, LegacyEvent("fetch", <<>>, 0,
                                   [NoOutcome EXCEPT !.threw = outcome.threw])),
               !.data = outcome.data,
               !.pc = IF fetchFailed(outcome) THEN "catch" ELSE "apply"]
    /\ UNCHANGED <<builderVars, requestVars, parked, closures>>

\* apply, lines 91-100: the matched patterns are sorted and the loop over
\* them is entered; it returns inside its first round, so only the rules of
\* the first sorted pattern are ever run, and with no matched pattern apply
\* returns undefined.
LegacyApply ==
    /\ legacy.pc = "apply"
    /\ \E sortedPaths \in sortPaths(matchedPaths) :
           legacy' =
               IF sortedPaths = <<>>
               THEN [legacy EXCEPT !.pc = "done", !.response = Null]
               ELSE IF rulesOf(appliedPath(sortedPaths)) = <<>>
                    THEN [legacy EXCEPT
                             !.sortedPaths = sortedPaths, !.pc = "done",
                             !.response = applyReturn(FALSE, Undefined,
                                                      legacy.pathname)]
                    ELSE [legacy EXCEPT
                             !.sortedPaths = sortedPaths, !.pc = "rules",
                             !.ruleIdx = 1]
    /\ UNCHANGED <<builderVars, requestVars, parked, closures>>

\* Lines 133-156: the rule at ruleIdx is called; behind the last rule, or
\* behind the break, apply returns.  A throw reaches handle's catch.
LegacyRule ==
    /\ legacy.pc = "rules"
    /\ \E outcome \in LegacyRuleOutcomes(legacy.pathname) :
           LET path == appliedPath(legacy.sortedPaths)
               n == Len(rulesOf(path))
               nextCalled == legacy.nextCalled \/ outcome.next
               redirectPath == IF outcome.redirect # Undefined
                               THEN outcome.redirect
                               ELSE legacy.redirectPath
               idx == afterLegacyRule(redirectPath, legacy.ruleIdx, n)
               called == [legacy EXCEPT
                   !.trace = Append(@, LegacyEvent("rule", path,
                                                   legacy.ruleIdx, outcome))]
           IN  legacy' =
                   IF outcome.threw
                   THEN [called EXCEPT !.pc = "catch"]
                   ELSE IF idx > n
                        THEN [called EXCEPT
                                 !.nextCalled = nextCalled,
                                 !.redirectPath = redirectPath,
                                 !.pc = "done",
                                 !.response = applyReturn(nextCalled,
                                     redirectPath, legacy.pathname)]
                        ELSE [called EXCEPT
                                 !.nextCalled = nextCalled,
                                 !.redirectPath = redirectPath,
                                 !.ruleIdx = idx]
    /\ UNCHANGED <<builderVars, requestVars, parked, closures>>

\* Lines 186-190: the catch block.  An injected onError is called and its
\* result returned (its throw leaves handle); without one, handle returns
\* undefined.
LegacyCatch ==
    /\ legacy.pc = "catch"
    /\ \E threw \in (IF legacy.onError THEN BOOLEAN ELSE {FALSE}) :
           legacy' =
               IF legacy.onError
               THEN [legacy EXCEPT
                        !.trace = Append(@, LegacyEvent("onError", <<>>, 0,
                                            [NoOutcome EXCEPT !.threw = threw])),
                        !.pc = "done",
                        !.raised = threw,
                        !.response = IF threw THEN Null ELSE LegacyOnErrorResult]
               ELSE [legacy EXCEPT !.pc = "done", !.response = Null]
    /\ UNCHANGED <<builderVars, requestVars, parked, closures>>

LegacyNext ==
    \/ \E pathname \in LegacyPaths : LegacyHandle(pathname)
    \/ LegacyFetch
    \/ LegacyApply
    \/ LegacyRule
    \/ LegacyCatch

LegacySpec == LegacyInit /\ [][LegacyNext]_vars

\* Reading the legacy call in flight.
LegacyEventsOf(kind) == SelectSeq(legacy.trace, LAMBDA e : e.ev = kind)
LegacyRuleEvents == LegacyEventsOf("rule")
LegacyDone == legacy.pc = "done"
LegacyRuleThrew ==
    \E k \in 1..Len(legacy.trace) :
        legacy.trace[k].ev = "rule" /\ legacy.trace[k].threw

\* The place of a pattern among the keys of the rules mapping.
KeyIndex(path) ==
    CHOOSE k \in 1..Len(legacy.rules) : legacy.rules[k].pattern = path

\* apply has sorted the matched patterns of the call in flight.
LegacySorted == legacy.sortedPaths # <<>>

(***************************************************************************)
(* C23. Legacy matcher precedence: whatever the patterns that match the    *)
(* pathname and whatever their registration order, sortPaths returns the   *)
(* matched patterns with every pattern ending in '/*' behind every pattern *)
(* not ending in '/*', and the rules that are applied are those of the     *)
(* first sorted pattern: of a non-wildcard pattern whenever one matches.   *)
(***************************************************************************)
C23_WildcardsSortLast ==
    LegacySorted =>
        LET sorted == legacy.sortedPaths
            matched == matchedPaths
        IN  /\ Len(sorted) = Len(matched)
            /\ {sorted[k] : k \in 1..Len(sorted)}
                   = {matched[k] : k \in 1..Len(matched)}
            /\ \A i, j \in 1..Len(sorted) :
                   (isWildcard(sorted[i]) /\ ~isWildcard(sorted[j])) => j < i
            /\ \A k \in 1..Len(LegacyRuleEvents) :
                   /\ LegacyRuleEvents[k].pattern = sorted[1]
                   /\ (\E i \in 1..Len(matched) : ~isWildcard(matched[i]))
                          => ~isWildcard(LegacyRuleEvents[k].pattern)

\* '/a/*' was registered before '/a/b', both match '/a/b', and the rule
\* that ran is one of '/a/b'.
C23_Witness ==
    /\ Len(legacy.rules) = 2
    /\ legacy.rules[1].pattern = PatternAStar
    /\ legacy.rules[2].pattern = PathASub
    /\ legacy.pathname = PathASub
    /\ LegacyRuleEvents # <<>>
    /\ LegacyRuleEvents[1].pattern = PathASub

(***************************************************************************)
(* C24. Legacy matcher tie-break: sortPaths is stable, i.e. two matched    *)
(* patterns of the same group (both ending in '/*', or both not) stay in   *)
(* registration order, the key order of the rules mapping.                 *)
(***************************************************************************)
C24_StableWithinGroup ==
    LegacySorted =>
        LET sorted == legacy.sortedPaths
        IN  \A i, j \in 1..Len(sorted) :
                (i < j /\ isWildcard(sorted[i]) = isWildcard(sorted[j]))
                    => KeyIndex(sorted[i]) < KeyIndex(sorted[j])

\* The rule call that recorded the redirect target, 0 if none did.
RedirectingRule ==
    LET at == {k \in 1..Len(LegacyRuleEvents) :
                  ~LegacyRuleEvents[k].threw
                  /\ LegacyRuleEvents[k].redirect # Undefined}
    IN  IF at = {} THEN 0 ELSE CHOOSE k \in at : \A j \in at : k <= j

\* A rule called next() in a call before rule call k.
NextCalledBefore(k) ==
    \E j \in 1..(k - 1) : LegacyRuleEvents[j].next

(***************************************************************************)
(* C25. Legacy redirect and next(): in the legacy apply step a target      *)
(* recorded by redirect() produces a redirect response whenever it differs *)
(* from the current pathname (and a pass-through if it is the pathname),    *)
(* whether or not a rule of the list called next() before the redirect()   *)
(* call.                                                                   *)
(***************************************************************************)
C25_RedirectHonoredAfterNext ==
    (LegacyDone /\ ~LegacyRuleThrew /\ RedirectingRule # 0) =>
        LET target == LegacyRuleEvents[RedirectingRule].redirect
        IN  legacy.response =
                IF target # legacy.pathname
                THEN ResponsesRedirect(target)
                ELSE ResponsesNext

\* C25 as stated: a redirect() issued after an earlier rule called next()
\* is ignored and the response is a pass-through.
C25_AsStated ==
    (LegacyDone /\ ~LegacyRuleThrew /\ RedirectingRule # 0
        /\ NextCalledBefore(RedirectingRule)) =>
        legacy.response = ResponsesNext

\* The first rule called next(), the second redirect('/sign-in'), and the
\* response is the redirect.
C25_Witness ==
    /\ LegacyDone
    /\ Len(LegacyRuleEvents) = 2
    /\ LegacyRuleEvents[1].next
    /\ LegacyRuleEvents[1].redirect = Undefined
    /\ LegacyRuleEvents[2].redirect = SignIn
    /\ legacy.response = ResponsesRedirect(SignIn)

(***************************************************************************)
(* C26. Legacy rule list outcome: the rules of the selected pattern are    *)
(* invoked in list order; once a rule has called redirect() no later rule  *)
(* is invoked and the response is a redirect to that rule's target (a      *)
(* pass-through if the target is the current pathname); if no rule calls   *)
(* redirect() every rule is invoked and the response is a pass-through,    *)
(* whether or not next() was called.  (Of requests no rule of which        *)
(* threw.)                                                                 *)
(***************************************************************************)
C26_FirstRedirectWins ==
    LET invoked == LegacyRuleEvents
        n == Len(invoked)
    IN  /\ \A k \in 1..n :
               /\ invoked[k].idx = k
               /\ invoked[k].pattern = legacy.sortedPaths[1]
               /\ (k < n) => (invoked[k].redirect = Undefined /\ ~invoked[k].threw)
        /\ (LegacyDone /\ n > 0 /\ ~LegacyRuleThrew) =>
               IF invoked[n].redirect # Undefined
               THEN legacy.response =
                        IF invoked[n].redirect = legacy.pathname
                        THEN ResponsesNext
                        ELSE ResponsesRedirect(invoked[n].redirect)
               ELSE /\ n = Len(rulesOf(legacy.sortedPaths[1]))
                    /\ legacy.response = ResponsesNext

\* The first of two rules called redirect('/sign-in'): the second rule was
\* not invoked and the response is the redirect.
C26_Witness ==
    /\ LegacyDone
    /\ LegacySorted
    /\ Len(rulesOf(legacy.sortedPaths[1])) = 2
    /\ Len(LegacyRuleEvents) = 1
    /\ ~LegacyRuleEvents[1].next
    /\ LegacyRuleEvents[1].redirect = SignIn
    /\ legacy.response = ResponsesRedirect(SignIn)

\* The pathname of the call matches a pattern of authPaths.
Protected ==
    \E i \in 1..Len(legacy.authPaths) :
        match(legacy.authPaths[i], legacy.pathname)

(***************************************************************************)
(* C27. Legacy auth-gating comes first: handle() calls fetch, and any      *)
(* rule, only when the pathname matches a pattern of authPaths; for every  *)
(* other pathname it returns a pass-through and has called nothing.        *)
(***************************************************************************)
C27_AuthGateFirst ==
    legacy.pc \notin {"none", "idle"} =>
        /\ (legacy.trace # <<>> \/ legacy.pc # "done") => Protected
        /\ ~Protected =>
               /\ legacy.pc = "done"
               /\ legacy.trace = <<>>
               /\ legacy.response = ResponsesNext
               /\ ~legacy.raised

\* A request for '/c', outside authPaths, while rules are registered that
\* match it: passed through, nothing called.
C27_Witness ==
    /\ LegacyDone
    /\ legacy.pathname = PathC
    /\ \E k \in 1..Len(legacy.rules) : match(legacy.rules[k].pattern, PathC)
    /\ legacy.trace = <<>>
    /\ legacy.response = ResponsesNext

\* fetch was called and threw or resolved to a falsy value.
LegacyFetchFailed ==
    /\ LegacyEventsOf("fetch") # <<>>
    /\ LegacyEventsOf("fetch")[1].threw \/ legacy.data = NullData

(***************************************************************************)
(* C28. Legacy fetch failure: on a protected path, when fetch throws or    *)
(* returns a falsy value, no rule is invoked; with an injected onError,    *)
(* handle() calls it once and returns its result (its throw is handle's);  *)
(* without one, handle() completes with no response and without raising.   *)
(***************************************************************************)
C28_FetchFailure ==
    LegacyFetchFailed =>
        /\ LegacyRuleEvents = <<>>
        /\ legacy.sortedPaths = <<>>
        /\ LegacyDone =>
               LET handled == LegacyEventsOf("onError")
               IN  IF legacy.onError
                   THEN /\ Len(handled) = 1
                        /\ legacy.raised = handled[1].threw
                        /\ ~handled[1].threw =>
                               legacy.response = LegacyOnErrorResult
                   ELSE /\ handled = <<>>
                        /\ legacy.response = Null
                        /\ ~legacy.raised

\* fetch resolved to a falsy value, no onError was injected: the call is
\* over, no rule ran although one matches, and there is no response.
C28_Witness ==
    /\ LegacyDone
    /\ ~legacy.onError
    /\ LegacyEventsOf("fetch") # <<>>
    /\ ~LegacyEventsOf("fetch")[1].threw
    /\ legacy.data = NullData
    /\ matchedPaths # <<>>
    /\ LegacyRuleEvents = <<>>
    /\ legacy.response = Null

\* The paths the Path Matcher of 4.2 is said to accept for a pattern: with
\* a '/*', the prefix itself and what lies under it; without, the paths of
\* as many segments, each equal to the pattern's or under a '[name]'.
SaidToMatch(pattern, path) ==
    IF isWildcard(pattern)
    THEN LET p == DropLast(pattern, 2)
         IN  path = p \/ StartsWith(path, p \o <<"/">>)
    ELSE LET patternParts == Split(pattern)
             pathParts == Split(path)
         IN  /\ Len(pathParts) = Len(patternParts)
             /\ \A k \in 1..Len(patternParts) :
                    IsBracket(patternParts[k]) \/ patternParts[k] = pathParts[k]

(***************************************************************************)
(* C29. Legacy pattern matching, for authPaths and for rule patterns,      *)
(* accepts exactly the paths the Path Matcher of 4.2 accepts for the same  *)
(* pattern: with a '/*' the prefix and the paths under it, without one     *)
(* only paths of the same number of segments.                              *)
(***************************************************************************)
C29_LegacyMatchAsPathMatcher ==
    legacy.pc \notin {"none", "idle"} =>
        /\ \A i \in 1..Len(legacy.authPaths) :
               match(legacy.authPaths[i], legacy.pathname)
                   <=> SaidToMatch(legacy.authPaths[i], legacy.pathname)
        /\ \A k \in 1..Len(legacy.rules) :
               match(legacy.rules[k].pattern, legacy.pathname)
                   <=> SaidToMatch(legacy.rules[k].pattern, legacy.pathname)

(***************************************************************************)
(* The role-gated prefix of the README's Quick Start, without plugins.     *)
(***************************************************************************)
PathAdmin == <<"/", "a", "d", "m", "i", "n">>
PathAdminUsers == PathAdmin \o <<"/", "u", "s", "e", "r", "s">>
QuickStartPaths == {PathAdmin, PathAdminUsers, PathAdmin \o <<"/">>, PathC}
QuickStartUsers == {"user", "admin", "editor", "member"}

QuickStartInit ==
    /\ routes = <<>>
    /\ authPaths = <<>>
    /\ plugins = <<>>
    /\ defaultMetadata = EmptyObject
    /\ fetchUserFn =
           { [threw |-> FALSE, data |-> d] : d \in QuickStartUsers \cup {NullData} }
               \cup { [threw |-> TRUE, data |-> NullData] }
    /\ built = FALSE
    /\ IdleRequest
    /\ NoOthers

QuickStartNext ==
    \/ routes = <<>> /\ prefix(PathAdmin, <<RulesIsLoggedIn, RulesHasRole("admin")>>)
    \/ build
    \/ \E path \in QuickStartPaths : Handle(path)
    \/ resolveRoute
    \/ fetchUser
    \/ runRule
    \/ afterRuleDone
    \/ returnResult
    \/ defaultErrorPolicy

QuickStartSpec == QuickStartInit /\ [][QuickStartNext]_vars

\* The request is for '/admin' or a path under it.
UnderAdmin ==
    context.path = PathAdmin \/ StartsWith(context.path, PathAdmin \o <<"/">>)

\* The user has role == 'admin' or 'admin' in roles.
IsAdmin(data) ==
    \/ UserObject(data).role = "admin"
    \/ "admin" \in {UserObject(data).roles[k] : k \in DOMAIN UserObject(data).roles}

(***************************************************************************)
(* C30. Role-gated prefix as in the Quick Start: with                      *)
(* prefix('/admin', Rules.isLoggedIn(), Rules.hasRole('admin')) and no     *)
(* plugins, a request for '/admin' or a path under it is answered with a   *)
(* redirect to '/sign-in' when fetchUser returns null, with a 403 when the *)
(* user returned has neither role == 'admin' nor 'admin' in roles, and     *)
(* with a pass-through when the user has the role; hasRole is never        *)
(* invoked for a request without user data.                                *)
(***************************************************************************)
C30_QuickStartRoleGate ==
    /\ \A k \in 1..Len(RuleEvents) :
           RuleEvents[k].rule = "hasRole" => RuleEvents[k].data # NullData
    /\ (Done /\ built /\ routes # <<>> /\ UnderAdmin /\ ~RequestFailed) =>
           LET data == FetchEvents[1].data
           IN  /\ FetchEvents # <<>>
               /\ data = NullData =>
                      /\ response = ResponsesRedirect(SignIn)
                      /\ Len(RuleEvents) = 1
               /\ (data # NullData /\ ~IsAdmin(data)) =>
                      /\ response.type = "json"
                      /\ response.status = 403
               /\ (data # NullData /\ IsAdmin(data)) =>
                      response = ResponsesNext

\* A user with roles ['member'] asked for '/admin/users': both rules ran
\* and the response is the 403.
C30_Witness ==
    /\ Done
    /\ context.path = PathAdminUsers
    /\ context.data = "member"
    /\ Len(RuleEvents) = 2
    /\ response.status = 403

\* The places in the trace of the calls of the hook `hook`.
CallsOf(hook) == {i \in 1..Len(trace) : trace[i].ev = hook}

(***************************************************************************)
(* C33. Success and error paths are mutually exclusive per request: the    *)
(* afterRequest round occurs at most once (one unbroken run of calls, each *)
(* plugin at most once), the onError chain is entered at most once (each   *)
(* plugin's onError at most once), and never both for the same request: no *)
(* afterRequest hook runs for a request that went to the onError chain or  *)
(* to the default error policy, and no request that reached its            *)
(* afterRequest round goes to the error path, even if one of those hooks   *)
(* throws.                                                                 *)
(***************************************************************************)
C33_SuccessErrorExclusive ==
    LET after == CallsOf("afterRequest")
        errs == CallsOf("onError")
    IN  /\ after = {} \/ errs = {}
        /\ \A i, j \in after : \A k \in i..j : k \in after
        /\ \A i, j \in errs : \A k \in i..j : k \in errs
        /\ \A i, j \in after \cup errs :
               trace[i].plugin = trace[j].plugin => i = j
        /\ pc = "onError" => after = {}
        /\ pc = "afterRequest" => (errs = {} /\ error = NoError)
        /\ (Done /\ after # {}) => (error = NoError /\ response = result)
        /\ (Done /\ error # NoError) => after = {}

\* A rule threw with a plugin in place that defines both hooks: its onError
\* was called, its afterRequest was not, and the response is the default
\* policy's.
C33_Witness ==
    /\ Done
    /\ RequestFailed
    /\ PluginsWith("afterRequest") # <<>>
    /\ CallsOf("onError") # {}
    /\ CallsOf("afterRequest") = {}
    /\ response = ResponsesRedirect(SignIn)

(***************************************************************************)
(* A pipeline with the authPaths entry '/a/*' and routes on both sides of  *)
(* it: under '/a', and at '/ab'.                                           *)
(***************************************************************************)
AuthPathInit ==
    /\ routes = <<>>
    /\ authPaths = <<PatternAStar>>
    /\ plugins = <<>>
    /\ defaultMetadata = DefaultMetadataOption
    /\ fetchUserFn = FetchOutcomes
    /\ built = FALSE
    /\ IdleRequest
    /\ NoOthers

AuthPathNext ==
    \/ exact(PathAb, Chain(1))
    \/ prefix(PathA, Chain(1))
    \/ build
    \/ \E path \in {PathA, PathASub, PathAb, PathC} : Handle(path)
    \/ resolveRoute
    \/ fetchUser
    \/ runRule
    \/ afterRuleDone
    \/ returnResult
    \/ defaultErrorPolicy

AuthPathSpec == AuthPathInit /\ [][AuthPathNext]_vars

\* The paths a prefix route P would match, for the entry P/*; the entry
\* itself otherwise.
CoveredBySegments(path, entry) ==
    IF EndsWith(entry, <<"/", "*">>)
    THEN LET P == DropLast(entry, 2)
         IN  path = P \/ StartsWith(path, P \o <<"/">>)
    ELSE path = entry

(***************************************************************************)
(* C34. Auth-path prefix entries respect segment boundaries in the default *)
(* error policy: a failed request that no onError hook answered is passed  *)
(* through exactly when its path equals an authPaths entry or, for an      *)
(* entry P/*, is P or starts with P + '/'; a path that merely shares the   *)
(* leading characters of P is redirected to '/sign-in'.                    *)
(***************************************************************************)
C34_AuthPathSegmentBoundary ==
    (Done /\ Unrecovered) =>
        IF \E k \in 1..Len(authPaths) : CoveredBySegments(context.path, authPaths[k])
        THEN response = ResponsesNext
        ELSE response = ResponsesRedirect(SignIn)

\* next() was called, and the target recorded, by the rule calls so far.
NextCalledSoFar == \E k \in 1..Len(LegacyRuleEvents) : LegacyRuleEvents[k].next
TargetSoFar ==
    IF RedirectingRule = 0
    THEN Undefined
    ELSE LegacyRuleEvents[RedirectingRule].redirect

(***************************************************************************)
(* C35. Legacy apply runs the rule list of exactly one pattern per         *)
(* request: when several patterns of the rules mapping match the pathname, *)
(* every rule call is a call of a rule of the first pattern in sorted      *)
(* order, no rule of another matching pattern is called, and the response  *)
(* is what the calls of that one list make it.                             *)
(***************************************************************************)
C35_OnePatternApplied ==
    (LegacySorted /\ Len(matchedPaths) >= 2) =>
        /\ \A k \in 1..Len(LegacyRuleEvents) :
               /\ LegacyRuleEvents[k].pattern = legacy.sortedPaths[1]
               /\ \A i \in 2..Len(legacy.sortedPaths) :
                      LegacyRuleEvents[k].pattern # legacy.sortedPaths[i]
        /\ Len(LegacyRuleEvents) <= Len(rulesOf(legacy.sortedPaths[1]))
        /\ (LegacyDone /\ ~LegacyRuleThrew) =>
               /\ LegacyRuleEvents # <<>>
               /\ legacy.response \in {ResponsesNext, ResponsesRedirect(TargetSoFar)}
               /\ legacy.response = ResponsesNext <=>
                      (TargetSoFar \in {Undefined, legacy.pathname})

\* Two patterns match, every rule of the first sorted one ran without a
\* redirect, and the call is over with a pass-through: the rules of the
\* second pattern were never called.
C35_Witness ==
    /\ LegacyDone
    /\ Len(legacy.sortedPaths) = 2
    /\ Len(LegacyRuleEvents) = Len(rulesOf(legacy.sortedPaths[1]))
    /\ ~LegacyRuleThrew
    /\ TargetSoFar = Undefined
    /\ legacy.response = ResponsesNext

\* fetch was called and resolved to truthy data.
LegacyFetchSucceeded ==
    /\ LegacyEventsOf("fetch") # <<>>
    /\ ~LegacyEventsOf("fetch")[1].threw
    /\ legacy.data # NullData

(***************************************************************************)
(* C36. Legacy handle() produces a response for every protected request    *)
(* whose fetch succeeds: when the pathname matches authPaths, fetch        *)
(* returned truthy data and no rule threw, handle() returns a pass-through *)
(* or a redirect, also when no pattern of the rules mapping matches the    *)
(* pathname.                                                               *)
(***************************************************************************)
C36_ProtectedRequestAnswered ==
    (LegacyDone /\ Protected /\ LegacyFetchSucceeded /\ ~LegacyRuleThrew) =>
        /\ legacy.response.type \in {"next", "redirect"}
        /\ ~legacy.raised

(***************************************************************************)
(* Rule chains with Rules.isNotLoggedIn() in front of other rules.         *)
(***************************************************************************)
PathLogin == <<"/", "l", "o", "g", "i", "n">>

LoginInit ==
    /\ routes = <<>>
    /\ authPaths = <<>>
    /\ plugins = <<>>
    /\ defaultMetadata = EmptyObject
    /\ fetchUserFn = FetchOutcomes
    /\ built = FALSE
    /\ IdleRequest
    /\ NoOthers

LoginNext ==
    \/ exact(PathLogin, <<RulesIsNotLoggedIn, CustomRule(1)>>)
    \/ prefix(PathLogin, <<CustomRule(1), RulesIsNotLoggedIn, CustomRule(2)>>)
    \/ build
    \/ \E path \in {PathLogin, PathLogin \o <<"/", "x">>} : Handle(path)
    \/ resolveRoute
    \/ fetchUser
    \/ runRule
    \/ afterRuleDone
    \/ returnResult
    \/ defaultErrorPolicy

LoginSpec == LoginInit /\ [][LoginNext]_vars

(***************************************************************************)
(* C37. Rules.isNotLoggedIn() always decides: every call of it returns a   *)
(* non-null response, a pass-through when there is no user data and a      *)
(* redirect to '/' when there is, so it is the last rule called for its    *)
(* request (no rule placed after it is ever invoked) and its result is the *)
(* handler's response.                                                     *)
(***************************************************************************)
C37_IsNotLoggedInDecides ==
    \A k \in 1..Len(RuleEvents) :
        RuleEvents[k].rule = "isNotLoggedIn" =>
            /\ ~RuleEvents[k].threw
            /\ RuleEvents[k].res # Null
            /\ RuleEvents[k].res.type =
                   IF RuleEvents[k].data = NullData THEN "next" ELSE "redirect"
            /\ RuleEvents[k].res.type = "redirect" =>
                   RuleEvents[k].res.location = <<"/">>
            /\ k = Len(RuleEvents)
            /\ pc \notin {"beforeRule", "onError"}
            /\ Done => response = RuleEvents[k].res

\* A chain of three rules with isNotLoggedIn() second: the first passed,
\* isNotLoggedIn() found no user and returned the pass-through, and the
\* third rule was not called.
C37_Witness ==
    /\ Done
    /\ Len(MatchedRules) = 3
    /\ Len(RuleEvents) = 2
    /\ RuleEvents[2].rule = "isNotLoggedIn"
    /\ RuleEvents[2].data = NullData
    /\ response = ResponsesNext

\* ---------------------------------------------------------------------------
\* Rules.rateLimit: a sliding window of passed requests per client IP.
\* ---------------------------------------------------------------------------

\* The rule is configured with requests in 1 .. MaxLimit and a window of
\* 1 .. MaxWindow ticks, and is invoked at most MaxCalls times.
MaxLimit == 2
MaxWindow == 2
MaxCalls == 4

RateLimitInit ==
    /\ routes = <<>>
    /\ authPaths = <<>>
    /\ plugins = <<>>
    /\ defaultMetadata = EmptyObject
    /\ fetchUserFn = FetchOutcomes
    /\ built = FALSE
    /\ IdleRequest
    /\ NoOthers

RateLimitNext ==
    \/ \E n \in 1..MaxLimit, w \in 1..MaxWindow :
           /\ routes = <<>>
           /\ prefix(PathA, <<RulesRateLimit([requests |-> n, window |-> w])>>)
    \/ build
    \/ Len(closures.calls) < MaxCalls /\ Handle(PathA)
    \/ resolveRoute
    \/ fetchUser
    \/ runRule
    \/ afterRuleDone
    \/ returnResult
    \/ defaultErrorPolicy
    \/ Tick

RateLimitSpec == RateLimitInit /\ [][RateLimitNext]_vars

\* The invocations of the rateLimit rule before the k-th (all of them for
\* k = Len + 1) that let a request of ip pass at a time in (lo, hi].
PassedIn(ip, k, lo, hi) ==
    {j \in 1..(k - 1) :
        /\ closures.calls[j].ip = ip
        /\ closures.calls[j].passed
        /\ closures.calls[j].now > lo
        /\ closures.calls[j].now <= hi}

\* C31: with Rules.rateLimit({requests: N, window: W}) and a clock that does
\* not run backwards, no client IP has more than N passed requests with
\* timestamps in any interval (t - W, t]; a request is answered 429 exactly
\* when N passed requests of the same IP lie within the last W ms, whatever
\* the other IPs did, and passes (null) otherwise.
C31_RateLimitWindow ==
    routes # <<>> =>
        LET options == routes[1].rules[1].options
            calls == closures.calls
        IN  /\ \A ip \in ClientIPs, t \in 0..MaxClock :
                   Cardinality(PassedIn(ip, Len(calls) + 1, t - options.window, t))
                       <= options.requests
            /\ \A k \in 1..Len(calls) :
                   ~calls[k].passed <=>
                       Cardinality(PassedIn(calls[k].ip, k,
                                            calls[k].now - options.window,
                                            calls[k].now))
                           >= options.requests
            /\ RuleEvents # <<>> =>
                   /\ ~RuleEvents[1].threw
                   /\ RuleEvents[1].res =
                          IF calls[Len(calls)].passed
                          THEN Null
                          ELSE ResponsesJson("Rate limit exceeded", 429)
            /\ (Done /\ RuleEvents # <<>> /\ ~calls[Len(calls)].passed) =>
                   response = ResponsesJson("Rate limit exceeded", 429)

\* Limit 1 in a window of 1 tick: a client passed, its next request in the
\* same tick was answered 429 while another client's passed, and after the
\* window had moved on the first client passed again.
C31_Witness ==
    /\ Done
    /\ routes # <<>>
    /\ Len(closures.calls) = 4
    /\ closures.calls[1] = [ip |-> "10.0.0.1", now |-> 0, passed |-> TRUE]
    /\ closures.calls[2] = [ip |-> "10.0.0.1", now |-> 0, passed |-> FALSE]
    /\ closures.calls[3] = [ip |-> "unknown", now |-> 0, passed |-> TRUE]
    /\ closures.calls[4] = [ip |-> "10.0.0.1", now |-> 1, passed |-> TRUE]

\* ---------------------------------------------------------------------------
\* CachingPlugin over its MemoryCacheStorage: what afterRequest stores.
\* ---------------------------------------------------------------------------

\* The plugin is configured with a ttl of 0 .. MaxTtl ticks.
MaxTtl == 2

StoreInit ==
    /\ routes = <<>>
    /\ authPaths = <<>>
    /\ plugins \in { <<CachingPluginWith([enabled |-> e, ttl |-> t])>> :
                         e \in BOOLEAN, t \in 0..MaxTtl }
    /\ defaultMetadata = DefaultMetadataOption
    /\ fetchUserFn = FetchOutcomes
    /\ built = FALSE
    /\ IdleRequest
    /\ NoOthers

StoreNext ==
    \/ routes = <<>> /\ prefix(PathA, <<CustomRule(1), RulesIsNotLoggedIn>>)
    \/ build
    \/ \E path \in {PathASub, PathC} : Handle(path)
    \/ executePluginHook
    \/ resolveRoute
    \/ fetchUser
    \/ runRule
    \/ afterRuleDone
    \/ returnResult
    \/ defaultErrorPolicy
    \/ Tick

StoreSpec == StoreInit /\ [][StoreNext]_vars

\* The step is the plugin's hook of the given name running.
CachingHookStep(hook) ==
    /\ pc = hook
    /\ hookIdx <= Len(plugins)
    /\ plugins[hookIdx].name = "caching"
    /\ trace' # trace

\* The storage holds an entry for the request's cache key that has not
\* expired.
LiveEntry ==
    /\ cacheKey(context) \in DOMAIN closures.storage
    /\ closures.storage[cacheKey(context)].expires >= closures.now

\* C32: the CachingPlugin's afterRequest writes context.data to the storage
\* under the request's cache key, through storage.set with the configured
\* ttl, if and only if the plugin is enabled, the request was not a cache
\* hit in beforeRequest, context.data is truthy and the result has no
\* location; otherwise it leaves the storage as it is.  A request is marked
\* as a cache hit exactly when beforeRequest, enabled, finds a live entry.
C32_StoreCondition ==
    [][ /\ CachingHookStep("beforeRequest") =>
               (CacheHit' <=> (plugins[hookIdx].options.enabled /\ LiveEntry))
        /\ CachingHookStep("afterRequest") =>
               LET options == plugins[hookIdx].options
                   stores == /\ options.enabled
                             /\ ~CacheHit
                             /\ context.data # NullData
                             /\ result.location = <<>>
               IN  IF stores
                   THEN /\ closures' = storageSet(closures, cacheKey(context),
                                                  context.data, options.ttl)
                        /\ closures'.storage # closures.storage
                        /\ closures'.storage[cacheKey(context)].value
                               = context.data
                        /\ options.ttl # 0 =>
                               closures'.storage[cacheKey(context)].expires
                                   = closures.now + options.ttl
                   ELSE closures' = closures
      ]_vars

\* A request whose user was fetched and whose rules answered without a
\* redirect has left its data in the storage: the request was no cache hit
\* and the entry under its key is the fetched user, alive for the ttl.
C32_Witness ==
    /\ Done
    /\ plugins[1].options.enabled
    /\ plugins[1].options.ttl = 1
    /\ ~CacheHit
    /\ context.data \in UserData
    /\ response # Null
    /\ response.type = "json"
    /\ LiveEntry
    /\ closures.storage[cacheKey(context)] =
           [value |-> context.data, expires |-> closures.now + 1]
====
